---- MODULE Spec2Model ----
(***************************************************************************)
(* Model of song-soulmate's cache layer (src/src/utils/cache.py) and of    *)
(* the memoized service calls built on it (spotify_service.py, api.py).    *)
(*                                                                         *)
(* Python values are written as their repr in a TLA+ string ("None",       *)
(* "False", "[1, 2]", ...); JSON texts as the text json.dumps produces.    *)
(* A Redis command either returns or raises: it raises when the networked  *)
(* store is unreachable (redis_up = FALSE).                                *)
(***************************************************************************)
EXTENDS Integers, Sequences, FiniteSets, TLC

VARIABLES
    use_redis,      \* CacheManager.use_redis
    redis_client,   \* CacheManager.redis_client: "client" or "None"
    memory_cache,   \* CacheManager.memory_cache: key -> Python value
    redis_db,       \* the networked store's keyspace: key -> stored text
    redis_up,       \* whether the networked store answers commands now
    probes,         \* number of connectivity probes (ping) made so far
    touched,        \* the stores the manager has issued an operation on
    last,           \* observation of the last operation and its result
    inval,          \* the invalidation in progress on the fallback store
    session,        \* the Flask session of one client: key -> value
    now,            \* datetime.now(), in minutes
    health          \* the health checks in progress, one per request thread

vars == <<use_redis, redis_client, memory_cache, redis_db, redis_up,
          probes, touched, last, inval, session, now, health>>

----------------------------------------------------------------------------
(* Python values *)

PyNone == "None"
PyFalse == "False"
PyTrue == "True"
PyList == "[1, 2]"
PyTuple == "(1, 2)"
\* a dict with a tuple key: json.dumps raises TypeError even with default=str
PyTupleKeyDict == "{(1, 2): 1}"
\* cache_health_check's test_value (the timestamp is a fixed instant here)
Sentinel == "{'timestamp': 1.0, 'test': True}"
\* the test_value of a health check that starts at a later instant
LaterSentinel == "{'timestamp': 2.0, 'test': True}"
\* results of the wrapped functions
ProfileAlice == "{'id': 'alice'}"
ProfileBruno == "{'id': 'bruno'}"
TopArtists == "{'items': [{'id': 'a1'}]}"
Stats == "{'top_artists_count': 1, 'top_genres_count': 0, 'music_variety': 'Very Low'}"
Report == "{'affinity_score': 20, 'target_user': 'john'}"
ErrFailed == "{'error': 'Failed to calculate affinity: Error getting top artists'}"
Playlists == "{'items': [{'id': 'p1'}]}"

\* bool(v): None, False and the empty containers are falsy
Truthy(v) == v \notin {PyNone, PyFalse, "0", "''", "{}", "[]"}

----------------------------------------------------------------------------
(* json.dumps(value, default=str) and json.loads, on the values above *)

Raises == [ok |-> FALSE, v |-> PyNone]
Returns(v) == [ok |-> TRUE, v |-> v]

\* json.dumps(value, default=str): a tuple is written as an array
JsonDumps(v) ==
    CASE v = PyNone -> Returns("null")
      [] v = PyFalse -> Returns("false")
      [] v = PyTrue -> Returns("true")
      [] v = PyList -> Returns("[1, 2]")
      [] v = PyTuple -> Returns("[1, 2]")
      [] v = PyTupleKeyDict -> Raises
      [] v = Sentinel -> Returns("{\"timestamp\": 1.0, \"test\": true}")
      [] v = LaterSentinel -> Returns("{\"timestamp\": 2.0, \"test\": true}")
      [] v = ProfileAlice -> Returns("{\"id\": \"alice\"}")
      [] v = ProfileBruno -> Returns("{\"id\": \"bruno\"}")
      [] v = TopArtists -> Returns("{\"items\": [{\"id\": \"a1\"}]}")
      [] v = Stats -> Returns("{\"top_artists_count\": 1, \"top_genres_count\": 0, \"music_variety\": \"Very Low\"}")
      [] v = Report -> Returns("{\"affinity_score\": 20, \"target_user\": \"john\"}")
      [] v = ErrFailed -> Returns("{\"error\": \"Failed to calculate affinity: Error getting top artists\"}")
      [] v = Playlists -> Returns("{\"items\": [{\"id\": \"p1\"}]}")
      [] OTHER -> Raises

\* a stored text that is not JSON (written by another client of the store)
NotJson == "<<not json>>"

\* json.loads(text): raises JSONDecodeError on a text that is not JSON
JsonLoads(t) ==
    CASE t = "null" -> Returns(PyNone)
      [] t = "false" -> Returns(PyFalse)
      [] t = "true" -> Returns(PyTrue)
      [] t = "[1, 2]" -> Returns(PyList)
      [] t = "{\"timestamp\": 1.0, \"test\": true}" -> Returns(Sentinel)
      [] t = "{\"timestamp\": 2.0, \"test\": true}" -> Returns(LaterSentinel)
      [] t = "{\"id\": \"alice\"}" -> Returns(ProfileAlice)
      [] t = "{\"id\": \"bruno\"}" -> Returns(ProfileBruno)
      [] t = "{\"items\": [{\"id\": \"a1\"}]}" -> Returns(TopArtists)
      [] t = "{\"top_artists_count\": 1, \"top_genres_count\": 0, \"music_variety\": \"Very Low\"}" -> Returns(Stats)
      [] t = "{\"affinity_score\": 20, \"target_user\": \"john\"}" -> Returns(Report)
      [] t = "{\"error\": \"Failed to calculate affinity: Error getting top artists\"}" -> Returns(ErrFailed)
      [] t = "{\"items\": [{\"id\": \"p1\"}]}" -> Returns(Playlists)
      [] OTHER -> Raises

----------------------------------------------------------------------------
(* hashlib.md5(s.encode()).hexdigest() on the strings the model hashes *)

\* str(self) of the SpotifyService instance (json.dumps default=str)
SelfRepr == "<src.services.spotify_service.SpotifyService object at 0x7f3c2a1b4d90>"

\* str(self) of the instance routes/auth.py creates for itself
AuthSelfRepr == "<src.services.spotify_service.SpotifyService object at 0x7f3c2a1b4a50>"

Md5Hex(s) ==
    CASE s = "{\"args\": [\"get_user_profile\", \"" \o SelfRepr \o "\", \"tokA\"], \"kwargs\": {}}"
           -> "d403aa4f2d7d26e08d5ac0cc5c1f3d55"
      [] s = "{\"args\": [\"get_user_profile\", \"" \o SelfRepr \o "\", \"tokB\"], \"kwargs\": {}}"
           -> "8447a0de36bd4b61c4071f79bd856ee8"
      [] s = "{\"args\": [\"get_top_artists\", \"" \o SelfRepr \o "\", \"tokA\"], \"kwargs\": [[\"limit\", 50]]}"
           -> "5cc6a96be7750121b91d60ac180c22c7"
      [] s = "{\"args\": [\"_get_cached_user_stats\", \"tokA\"], \"kwargs\": {}}"
           -> "a86474137fde326c80cae4af8019cf9f"
      [] s = "{\"args\": [\"_get_cached_affinity_calculation\", \"tokA\", \"john\"], \"kwargs\": {}}"
           -> "d086afd5568786b3cfa128b29291fbce"
      [] s = "{\"args\": [\"get_user_public_playlists\", \"" \o SelfRepr \o "\", \"bob\", \"tokA\"], \"kwargs\": {}}"
           -> "613032cdced16701de4f15d51b6c3ecb"
      [] s = "{\"args\": [\"get_top_artists\", \"" \o SelfRepr \o "\", \"tokA\"], \"kwargs\": [[\"limit\", 50], [\"time_range\", \"short_term\"]]}"
           -> "b1f48d0b229aecf628dc7392af0e728a"
      [] s = "{\"args\": [\"get_top_artists\", \"" \o SelfRepr \o "\", \"tokA\"], \"kwargs\": [[\"time_range\", \"short_term\"], [\"limit\", 50]]}"
           -> "7fa92fa19f499fe13541f4a3b800b321"
      [] s = "{\"args\": [\"get_top_artists\", \"" \o SelfRepr \o "\", \"tokA\"], \"kwargs\": [[\"limit\", 20], [\"time_range\", \"short_term\"]]}"
           -> "1d9a7af60af9f0e01ef82eb7f1b2a187"
      [] s = "{\"args\": [\"get_top_artists\", \"" \o SelfRepr \o "\", \"tokA\", 50], \"kwargs\": {}}"
           -> "3880af0c760de6977cb48ecc5ea151e4"
      [] s = "{\"args\": [\"get_top_artists\", \"" \o SelfRepr \o "\", \"tokA\"], \"kwargs\": [[\"limit\", \"50\"]]}"
           -> "4802bcd15cff54c657d4820481610966"
      [] s = "{\"args\": [\"_get_cached_affinity_calculation\", \"tokA\", \"sarah\"], \"kwargs\": {}}"
           -> "7b05be7da43c1d3b60c691aebb6cb6f1"
      [] s = "{\"args\": [\"get_user_profile_by_id\", \"" \o SelfRepr \o "\", \"bob\", \"tokA\"], \"kwargs\": {}}"
           -> "e70d67563f518b92d76c9fd97d022ee1"
      [] s = "{\"args\": [\"get_user_profile\", \"" \o AuthSelfRepr \o "\", \"tokA\"], \"kwargs\": {}}"
           -> "150b93f0f910a741cc3175aa71e7e061"
      [] s = "{\"args\": [\"_get_cached_user_stats\", \"tokB\"], \"kwargs\": {}}"
           -> "01dc94f2072097de39911c34064a3e49"
      [] s = "{\"args\": [\"get_top_artists\", \"" \o SelfRepr \o "\", \"tokB\"], \"kwargs\": [[\"limit\", 50]]}"
           -> "a48adf42ddfe219c58807a2bc20f0804"
      [] s = "alice" -> "6384e2b2184bcbf58eccf10ca7a6563c"
      [] s = "unknown" -> "ad921d60486366258809553a3db49a4a"
      [] s = "tokA" -> "514272faf26fbf94ae69d03cec7c11db"

----------------------------------------------------------------------------
(* The memoized calls of the model and their cache keys *)

\* key_prefix of the decorators
SpotifyApi == "spotify_api"
AffinityCalc == "affinity_calc"
UserStats == "user_stats"

Calls == {"profileA", "profileB", "topA", "statsA", "affinityA", "playlists"}

\* json.dumps(key_data, sort_keys=True, default=str) for each call:
\* args = (func.__name__, *args), kwargs = sorted(kwargs.items()) or {}
KeyString(c) ==
    CASE c = "profileA" ->
           "{\"args\": [\"get_user_profile\", \"" \o SelfRepr \o "\", \"tokA\"], \"kwargs\": {}}"
      [] c = "profileB" ->
           "{\"args\": [\"get_user_profile\", \"" \o SelfRepr \o "\", \"tokB\"], \"kwargs\": {}}"
      [] c = "topA" ->
           "{\"args\": [\"get_top_artists\", \"" \o SelfRepr \o "\", \"tokA\"], \"kwargs\": [[\"limit\", 50]]}"
      [] c = "statsA" ->
           "{\"args\": [\"_get_cached_user_stats\", \"tokA\"], \"kwargs\": {}}"
      [] c = "affinityA" ->
           "{\"args\": [\"_get_cached_affinity_calculation\", \"tokA\", \"john\"], \"kwargs\": {}}"
      [] c = "playlists" ->
           "{\"args\": [\"get_user_public_playlists\", \"" \o SelfRepr \o "\", \"bob\", \"tokA\"], \"kwargs\": {}}"

KeyPrefix(c) ==
    CASE c \in {"profileA", "profileB", "topA", "playlists"} -> SpotifyApi
      [] c = "statsA" -> UserStats
      [] c = "affinityA" -> AffinityCalc

\* _generate_cache_key: f"{prefix}:{md5(key_string).hexdigest()[:16]}"
_generate_cache_key(prefix, key_string) ==
    prefix \o ":" \o SubSeq(Md5Hex(key_string), 1, 16)

\* an argument of a call: its Python type and its text
StrArg(v) == [t |-> "str", v |-> v]
IntArg(v) == [t |-> "int", v |-> v]
SelfArg == [t |-> "obj", v |-> SelfRepr]

\* json.dumps of one argument; default=str turns an object into str(obj)
JsonOfArg(a) == IF a.t = "int" THEN a.v ELSE "\"" \o a.v \o "\""

\* ", ".join(texts), the separator of json.dumps
RECURSIVE Join(_)
Join(texts) ==
    IF texts = <<>> THEN ""
    ELSE IF Len(texts) = 1 THEN texts[1]
    ELSE texts[1] \o ", " \o Join(Tail(texts))

\* variant: the keyword arguments in the order of the call
KwargsInCallOrder(kwargs) == kwargs

\* sorted(kwargs.items()) over the parameter names of the decorated
\* functions: "limit" < "time_range"
SortedKwargs(kwargs) ==
    SelectSeq(kwargs, LAMBDA item : item[1] = "limit")
        \o SelectSeq(kwargs, LAMBDA item : item[1] = "time_range")

\* key_string of wrapper(*args, **kwargs): json.dumps of
\* {"args": (func.__name__, *args), "kwargs": sorted(kwargs.items()) or {}}
key_string(name, args, kwargs) ==
    LET items == SortedKwargs(kwargs) IN
    "{\"args\": ["
      \o Join(<<"\"" \o name \o "\"">>
                \o [i \in DOMAIN args |-> JsonOfArg(args[i])])
      \o "], \"kwargs\": "
      \o (IF kwargs = <<>> THEN "{}"
          ELSE "[" \o Join([i \in DOMAIN items |->
                              "[\"" \o items[i][1] \o "\", "
                                \o JsonOfArg(items[i][2]) \o "]"])
                   \o "]")
      \o "}"

\* a memoized call: decorator prefix, func.__name__, args, kwargs as written
MemoCall(prefix, name, args, kwargs) ==
    [prefix |-> prefix, name |-> name, args |-> args, kwargs |-> kwargs]

\* cache_key of wrapper for the call
wrapper_cache_key(call) ==
    _generate_cache_key(call.prefix,
                        key_string(call.name, call.args, call.kwargs))

\* the calls whose keys are compared
KeyCalls ==
    LET Limit50 == <<"limit", IntArg("50")>>
        Limit20 == <<"limit", IntArg("20")>>
        Short == <<"time_range", StrArg("short_term")>>
        TokA == <<SelfArg, StrArg("tokA")>>
    IN {MemoCall(SpotifyApi, "get_user_profile", TokA, <<>>),
        MemoCall(SpotifyApi, "get_user_profile",
                 <<SelfArg, StrArg("tokB")>>, <<>>),
        MemoCall(SpotifyApi, "get_top_artists", TokA, <<Limit50>>),
        MemoCall(SpotifyApi, "get_top_artists", TokA, <<Limit50, Short>>),
        MemoCall(SpotifyApi, "get_top_artists", TokA, <<Short, Limit50>>),
        MemoCall(SpotifyApi, "get_top_artists", TokA, <<Limit20, Short>>),
        MemoCall(SpotifyApi, "get_top_artists",
                 <<SelfArg, StrArg("tokA"), IntArg("50")>>, <<>>),
        MemoCall(SpotifyApi, "get_top_artists", TokA,
                 <<<<"limit", StrArg("50")>>>>),
        MemoCall(UserStats, "_get_cached_user_stats",
                 <<StrArg("tokA")>>, <<>>),
        MemoCall(AffinityCalc, "_get_cached_affinity_calculation",
                 <<StrArg("tokA"), StrArg("john")>>, <<>>),
        MemoCall(AffinityCalc, "_get_cached_affinity_calculation",
                 <<StrArg("tokA"), StrArg("sarah")>>, <<>>),
        MemoCall(SpotifyApi, "get_user_public_playlists",
                 <<SelfArg, StrArg("bob"), StrArg("tokA")>>, <<>>),
        MemoCall(SpotifyApi, "get_user_profile_by_id",
                 <<SelfArg, StrArg("bob"), StrArg("tokA")>>, <<>>)}

\* the key of each call, computed once
CacheKeys == [c \in Calls |-> _generate_cache_key(KeyPrefix(c), KeyString(c))]

CacheKey(c) == CacheKeys[c]

\* the key cache_health_check uses
HealthKey == "health_check_test"

AllKeys == {CacheKey(c) : c \in Calls} \cup {HealthKey}

----------------------------------------------------------------------------
(* CacheManager: the store state st = [mem, db, tch] is threaded through   *)
(* the operations of one handler; every result carries the new st.         *)

\* variant: the store is chosen again at every call (per-call fallback)
UsesRedis_PerCall == use_redis /\ redis_client # "None" /\ redis_up

\* `self.use_redis and self.redis_client`
UsesRedis == use_redis /\ redis_client # "None"

Touch(st, store) == [st EXCEPT !.tch = @ \cup {store}]

EmptyMap == [k \in {} |-> PyNone]

Without(f, keys) == [k \in DOMAIN f \ keys |-> f[k]]

\* variant: a stored text that does not decode is returned as it is
get_RawOnDecodeError(st, key) ==
    IF UsesRedis
    THEN LET st1 == Touch(st, "redis") IN
         IF ~redis_up
         THEN [res |-> PyNone, err |-> TRUE, st |-> st1]
         ELSE IF key \notin DOMAIN st.db \/ st.db[key] = ""
         THEN [res |-> PyNone, err |-> FALSE, st |-> st1]
         ELSE LET r == JsonLoads(st.db[key]) IN
              IF r.ok
              THEN [res |-> r.v, err |-> FALSE, st |-> st1]
              ELSE [res |-> st.db[key], err |-> TRUE, st |-> st1]
    ELSE [res |-> IF key \in DOMAIN st.mem THEN st.mem[key] ELSE PyNone,
          err |-> FALSE, st |-> Touch(st, "memory")]

\* CacheManager.get: None on a miss, on a falsy stored text and on any error
get(st, key) ==
    IF UsesRedis
    THEN LET st1 == Touch(st, "redis") IN
         IF ~redis_up
         THEN [res |-> PyNone, err |-> TRUE, st |-> st1]
         ELSE IF key \notin DOMAIN st.db \/ st.db[key] = ""
         THEN [res |-> PyNone, err |-> FALSE, st |-> st1]
         ELSE LET r == JsonLoads(st.db[key]) IN
              IF r.ok
              THEN [res |-> r.v, err |-> FALSE, st |-> st1]
              ELSE [res |-> PyNone, err |-> TRUE, st |-> st1]
    ELSE [res |-> IF key \in DOMAIN st.mem THEN st.mem[key] ELSE PyNone,
          err |-> FALSE, st |-> Touch(st, "memory")]

\* CacheManager.set: setex(key, expire, json.dumps(value)) or a dict store
set(st, key, value, expire) ==
    IF UsesRedis
    THEN LET serialized_value == JsonDumps(value) IN
         IF ~serialized_value.ok
         THEN [res |-> PyFalse, err |-> TRUE, st |-> st]
         ELSE IF ~redis_up \/ expire <= 0
         THEN [res |-> PyFalse, err |-> TRUE, st |-> Touch(st, "redis")]
         ELSE [res |-> PyTrue, err |-> FALSE,
               st |-> [Touch(st, "redis") EXCEPT
                         !.db = (key :> serialized_value.v) @@ st.db]]
    ELSE [res |-> PyTrue, err |-> FALSE,
          st |-> [Touch(st, "memory") EXCEPT !.mem = (key :> value) @@ st.mem]]

\* CacheManager.delete: bool(redis.delete(key)) or bool(dict.pop(key, None))
delete(st, key) ==
    IF UsesRedis
    THEN IF ~redis_up
         THEN [res |-> PyFalse, err |-> TRUE, st |-> Touch(st, "redis")]
         ELSE [res |-> IF key \in DOMAIN st.db THEN PyTrue ELSE PyFalse,
               err |-> FALSE,
               st |-> [Touch(st, "redis") EXCEPT !.db = Without(st.db, {key})]]
    ELSE [res |-> IF key \in DOMAIN st.mem /\ Truthy(st.mem[key])
                  THEN PyTrue ELSE PyFalse,
          err |-> FALSE,
          st |-> [Touch(st, "memory") EXCEPT !.mem = Without(st.mem, {key})]]

\* CacheManager.clear: flushdb() or dict.clear()
clear(st) ==
    IF UsesRedis
    THEN IF ~redis_up
         THEN [res |-> PyFalse, err |-> TRUE, st |-> Touch(st, "redis")]
         ELSE [res |-> PyTrue, err |-> FALSE,
               st |-> [Touch(st, "redis") EXCEPT !.db = EmptyMap]]
    ELSE [res |-> PyTrue, err |-> FALSE,
          st |-> [Touch(st, "memory") EXCEPT !.mem = EmptyMap]]

\* variant: exists without its try/except, the store's error reaches the
\* caller
exists_NoTry(st, key) ==
    IF UsesRedis
    THEN IF ~redis_up
         THEN [res |-> "ConnectionError", err |-> TRUE,
               st |-> Touch(st, "redis")]
         ELSE [res |-> IF key \in DOMAIN st.db THEN PyTrue ELSE PyFalse,
               err |-> FALSE, st |-> Touch(st, "redis")]
    ELSE [res |-> IF key \in DOMAIN st.mem THEN PyTrue ELSE PyFalse,
          err |-> FALSE, st |-> Touch(st, "memory")]

\* CacheManager.exists: bool(redis.exists(key)) or key in dict
exists(st, key) ==
    IF UsesRedis
    THEN IF ~redis_up
         THEN [res |-> PyFalse, err |-> TRUE, st |-> Touch(st, "redis")]
         ELSE [res |-> IF key \in DOMAIN st.db THEN PyTrue ELSE PyFalse,
               err |-> FALSE, st |-> Touch(st, "redis")]
    ELSE [res |-> IF key \in DOMAIN st.mem THEN PyTrue ELSE PyFalse,
          err |-> FALSE, st |-> Touch(st, "memory")]

----------------------------------------------------------------------------
(* invalidate_user_cache *)

\* Python's `user_id in key` on strings: substring test
In(user_id, key) ==
    \E i \in 1..(Len(key) - Len(user_id) + 1) :
        SubSeq(key, i, i + Len(user_id) - 1) = user_id

\* Redis glob matching of KEYS pattern (the pattern characters *, ?, \ and
\* literals; the model draws no identifier with a bracket class):
\* does p[i..] match s[j..]
RECURSIVE GlobFrom(_, _, _, _)
GlobFrom(p, i, s, j) ==
    IF i > Len(p) THEN j > Len(s)
    ELSE LET ch == SubSeq(p, i, i) IN
         IF ch = "*"
         THEN GlobFrom(p, i + 1, s, j)
              \/ (j <= Len(s) /\ GlobFrom(p, i, s, j + 1))
         ELSE IF ch = "?"
         THEN j <= Len(s) /\ GlobFrom(p, i + 1, s, j + 1)
         ELSE IF ch = "\\" /\ i < Len(p)
         THEN j <= Len(s) /\ SubSeq(s, j, j) = SubSeq(p, i + 1, i + 1)
              /\ GlobFrom(p, i + 2, s, j + 1)
         ELSE j <= Len(s) /\ SubSeq(s, j, j) = ch
              /\ GlobFrom(p, i + 1, s, j + 1)

\* identifiers passed to invalidate_user_cache by a caller of the module
Idents == {"", SpotifyApi, "stats:a864", SubSeq(Md5Hex("alice"), 1, 8), "?"}

\* every user_id the model passes: those, and the ones
\* get_user_id_from_token derives for "tokA"
UserIds == Idents \cup {SubSeq(Md5Hex("alice"), 1, 8),
                        SubSeq(Md5Hex("tokA"), 1, 8)}

\* `user_id in key` and the KEYS match f"*{user_id}*", computed once for
\* the user ids and keys of the model
KeysContaining == [u \in UserIds |-> {k \in AllKeys : In(u, k)}]
KeysMatching ==
    [u \in UserIds |-> {k \in AllKeys : GlobFrom("*" \o u \o "*", 1, k, 1)}]

\* redis_client.keys(f"*{user_id}*") on the keys of db
RedisKeys(db, user_id) == DOMAIN db \cap KeysMatching[user_id]

\* variant: only the keys that start with user_id are removed
invalidate_user_cache_PrefixOnly(st, user_id) ==
    IF UsesRedis
    THEN IF ~redis_up
         THEN [err |-> TRUE, st |-> Touch(st, "redis")]
         ELSE LET keys == {k \in DOMAIN st.db :
                             SubSeq(k, 1, Len(user_id)) = user_id} IN
              [err |-> FALSE,
               st |-> [Touch(st, "redis") EXCEPT !.db = Without(st.db, keys)]]
    ELSE LET keys_to_remove == {k \in DOMAIN st.mem :
                                  SubSeq(k, 1, Len(user_id)) = user_id} IN
         [err |-> FALSE,
          st |-> [Touch(st, "memory") EXCEPT
                    !.mem = Without(st.mem, keys_to_remove)]]

\* invalidate_user_cache(user_id): every error is logged and swallowed
invalidate_user_cache(st, user_id) ==
    IF UsesRedis
    THEN IF ~redis_up
         THEN [err |-> TRUE, st |-> Touch(st, "redis")]
         ELSE LET keys == RedisKeys(st.db, user_id) IN
              [err |-> FALSE,
               st |-> [Touch(st, "redis") EXCEPT !.db = Without(st.db, keys)]]
    ELSE LET keys_to_remove == DOMAIN st.mem \cap KeysContaining[user_id] IN
         [err |-> FALSE,
          st |-> [Touch(st, "memory") EXCEPT
                    !.mem = Without(st.mem, keys_to_remove)]]

----------------------------------------------------------------------------
(* cached(expire, key_prefix): the memoization wrapper *)

\* `if cached_result is not None`
IsHit(cached_result) == cached_result # PyNone

\* the store state in which the wrapped function starts: the one the
\* wrapper's lookup leaves
AfterLookup(st, cache_key) == get(st, cache_key).st

\* wrapper(*args, **kwargs); result is the outcome [raised, val, st] of
\* `func(*args, **kwargs)` started in AfterLookup(st, cache_key), used on a
\* miss only; ran counts the executions of the wrapped function
cached(st, cache_key, expire, result) ==
    LET g == get(st, cache_key) IN
    IF IsHit(g.res)
    THEN [res |-> g.res, raised |-> FALSE, ran |-> 0,
          rerr |-> g.err, werr |-> FALSE, st |-> g.st]
    ELSE IF result.raised
         THEN [res |-> PyNone, raised |-> TRUE, ran |-> 1,
               rerr |-> g.err, werr |-> FALSE, st |-> result.st]
         ELSE LET w == set(result.st, cache_key, result.val, expire) IN
              [res |-> result.val, raised |-> FALSE, ran |-> 1,
               rerr |-> g.err, werr |-> w.err, st |-> w.st]

\* expire of each decorated function
ExpireUserProfile == 1800
ExpireTopArtists == 900
ExpirePlaylists == 1800
ExpireUserStats == 900
ExpireAffinity == 3600

\* a function body that is one catalog request: the JSON body on status
\* 200, raise Exception otherwise
Request(st, status_200, json) ==
    IF status_200
    THEN [raised |-> FALSE, val |-> json, st |-> st]
    ELSE [raised |-> TRUE, val |-> PyNone, st |-> st]

\* SpotifyService.get_user_profile(access_token), c: "profileA" | "profileB"
get_user_profile(st, c, status_200) ==
    cached(st, CacheKey(c), ExpireUserProfile,
           Request(AfterLookup(st, CacheKey(c)), status_200,
                   IF c = "profileA" THEN ProfileAlice ELSE ProfileBruno))

\* SpotifyService.get_top_artists("tokA", limit=50)
get_top_artists(st, status_200) ==
    cached(st, CacheKey("topA"), ExpireTopArtists,
           Request(AfterLookup(st, CacheKey("topA")), status_200, TopArtists))

\* body of get_user_public_playlists("bob", "tokA"): None unless 200
PlaylistsBody(st, status_200) ==
    [raised |-> FALSE,
     val |-> IF status_200 THEN Playlists ELSE PyNone,
     st |-> st]

\* SpotifyService.get_user_public_playlists("bob", "tokA")
get_user_public_playlists(st, status_200) ==
    cached(st, CacheKey("playlists"), ExpirePlaylists,
           PlaylistsBody(AfterLookup(st, CacheKey("playlists")), status_200))

\* body of _get_cached_user_stats: get_top_artists, then the statistics
UserStatsBody(st, status_200) ==
    LET top_artists_response == get_top_artists(st, status_200) IN
    IF top_artists_response.raised
    THEN [raised |-> TRUE, val |-> PyNone, st |-> top_artists_response.st]
    ELSE [raised |-> FALSE, val |-> Stats, st |-> top_artists_response.st]

\* api._get_cached_user_stats("tokA")
_get_cached_user_stats(st, status_200) ==
    cached(st, CacheKey("statsA"), ExpireUserStats,
           UserStatsBody(AfterLookup(st, CacheKey("statsA")), status_200))

\* body of _get_cached_affinity_calculation: `except Exception as e:
\* return {"error": ...}`; the target "john" is a mock user (no request)
AffinityBody(st, status_200) ==
    LET current_user_response == get_top_artists(st, status_200) IN
    IF current_user_response.raised
    THEN [raised |-> FALSE, val |-> ErrFailed, st |-> current_user_response.st]
    ELSE [raised |-> FALSE, val |-> Report, st |-> current_user_response.st]

\* api._get_cached_affinity_calculation("tokA", "john")
_get_cached_affinity_calculation(st, status_200) ==
    cached(st, CacheKey("affinityA"), ExpireAffinity,
           AffinityBody(AfterLookup(st, CacheKey("affinityA")), status_200))

\* the memoized call c, with the catalog answering 200 or not
Invoke(st, c, status_200) ==
    CASE c \in {"profileA", "profileB"} -> get_user_profile(st, c, status_200)
      [] c = "topA" -> get_top_artists(st, status_200)
      [] c = "playlists" -> get_user_public_playlists(st, status_200)
      [] c = "statsA" -> _get_cached_user_stats(st, status_200)
      [] c = "affinityA" -> _get_cached_affinity_calculation(st, status_200)

----------------------------------------------------------------------------
(* SpotifyService.invalidate_user_cache and cache_health_check *)

\* user_profile.get("id", "unknown")
ProfileId(user_profile) ==
    CASE user_profile = ProfileAlice -> "alice"
      [] user_profile = ProfileBruno -> "bruno"
      [] OTHER -> "unknown"

\* SpotifyService.get_user_id_from_token("tokA"): md5 of the profile id,
\* or of the token when the profile fetch raises; first 8 hex digits
get_user_id_from_token(st, status_200) ==
    LET user_profile == get_user_profile(st, "profileA", status_200) IN
    [user_id |-> IF user_profile.raised
                 THEN SubSeq(Md5Hex("tokA"), 1, 8)
                 ELSE SubSeq(Md5Hex(ProfileId(user_profile.res)), 1, 8),
     st |-> user_profile.st]

\* SpotifyService.invalidate_user_cache("tokA")
service_invalidate_user_cache(st, status_200) ==
    LET u == get_user_id_from_token(st, status_200) IN
    [user_id |-> u.user_id] @@ invalidate_user_cache(u.st, u.user_id)

HealthExpire == 60

\* whether v has a .get method (a dict); .get on anything else raises
IsDict(v) == SubSeq(v, 1, 1) = "{"

\* round((end_time - start_time) * 1000, 2), as the report prints it
Latencies == {"0.05", "2.5"}

\* the verdict of cache_health_check on the value read back
HealthStatus(retrieved_value) ==
    IF ~Truthy(retrieved_value) THEN "degraded"
    ELSE IF ~IsDict(retrieved_value) THEN "unhealthy"
    ELSE IF retrieved_value \in {Sentinel, LaterSentinel} THEN "healthy"
    ELSE "degraded"

\* cache_health_check: set, get, delete on the test key, then the report;
\* latency_ms is the time measured around the three steps, and the report's
\* "latency_ms" is None unless the healthy branch updates it
cache_health_check(st, latency_ms) ==
    LET s == set(st, HealthKey, Sentinel, HealthExpire)
        g == get(s.st, HealthKey)
        d == delete(g.st, HealthKey)
        status == HealthStatus(g.res)
    IN [status |-> status,
        latency_ms |-> IF status = "healthy" THEN latency_ms ELSE PyNone,
        st |-> d.st]

----------------------------------------------------------------------------
(* State machine *)

\* values a caller passes to set directly
SetValues == {PyNone, PyFalse, PyList, PyTuple, PyTupleKeyDict}

\* keys the direct get/set/delete/exists requests use
DirectKeys == {HealthKey, CacheKey("statsA")}

\* keys another client of the networked store overwrites with a non-JSON text
CorruptKeys == {CacheKey("profileA"), CacheKey("statsA")}

St == [mem |-> memory_cache, db |-> redis_db, tch |-> touched]

\* presence of key in the selected store
Present(key) ==
    IF UsesRedis THEN key \in DOMAIN redis_db ELSE key \in DOMAIN memory_cache

Commit(st) ==
    /\ memory_cache' = st.mem
    /\ redis_db' = st.db
    /\ touched' = st.tch
    /\ UNCHANGED <<session, now, health, inval, use_redis, redis_client, redis_up, probes>>

\* the stores after the manager calls of a handler that writes other
\* variables as well
CommitStore(st) ==
    /\ memory_cache' = st.mem
    /\ redis_db' = st.db
    /\ touched' = st.tch

Obs(op, arg, val, res, ran, raised, rerr, werr, pre) ==
    [op |-> op, arg |-> arg, val |-> val, res |-> res, ran |-> ran,
     raised |-> raised, rerr |-> rerr, werr |-> werr, pre |-> pre]

\* no invalidation of the fallback store is in progress
Idle == [pc |-> "idle"]

\* the request threads that can run a health check at the same time
Threads == {"t1", "t2"}

\* no health check is in progress
NoChecks == [t \in Threads |-> Idle]

\* CacheManager.__init__ / _initialize_cache: from_url may raise (then no
\* client and no ping); otherwise one ping decides use_redis
Init ==
    /\ redis_up \in BOOLEAN
    /\ \E url_ok \in BOOLEAN :
         /\ redis_client = IF url_ok THEN "client" ELSE "None"
         /\ use_redis = (url_ok /\ redis_up)
         /\ probes = IF url_ok THEN 1 ELSE 0
    /\ memory_cache = EmptyMap
    /\ redis_db = EmptyMap
    /\ touched = {}
    /\ last = Obs("init", "", PyNone, PyNone, 0, FALSE, FALSE, FALSE, FALSE)
    /\ inval = Idle
    /\ session = EmptyMap /\ now = 0 /\ health = NoChecks

Get(key) ==
    LET r == get(St, key) IN
    /\ Commit(r.st)
    /\ last' = Obs("get", key, PyNone, r.res, 0, FALSE, r.err, FALSE,
                   Present(key))

Set(key, value, expire) ==
    LET r == set(St, key, value, expire) IN
    /\ Commit(r.st)
    /\ last' = Obs("set", key, value, r.res, 0, FALSE, FALSE, r.err,
                   Present(key))

Delete(key) ==
    LET r == delete(St, key) IN
    /\ Commit(r.st)
    /\ last' = Obs("delete", key, PyNone, r.res, 0, FALSE, FALSE, r.err,
                   Present(key))

Clear ==
    LET r == clear(St) IN
    /\ Commit(r.st)
    /\ last' = Obs("clear", "", PyNone, r.res, 0, FALSE, FALSE, r.err, FALSE)

Exists(key) ==
    LET r == exists(St, key) IN
    /\ Commit(r.st)
    /\ last' = Obs("exists", key, PyNone, r.res, 0, FALSE, r.err, FALSE,
                   Present(key))

\* a memoized call; status_200: whether the catalog answers 200
Call(c, status_200) ==
    LET r == Invoke(St, c, status_200) IN
    /\ Commit(r.st)
    /\ last' = Obs("call", c, PyNone, r.res, r.ran, r.raised, r.rerr, r.werr,
                   Present(CacheKey(c)))

Invalidate(user_id) ==
    LET r == invalidate_user_cache(St, user_id) IN
    /\ Commit(r.st)
    /\ last' = Obs("invalidate", user_id, PyNone, PyNone, 0, FALSE, FALSE,
                   r.err, r.st.mem # memory_cache \/ r.st.db # redis_db)

\* POST /api/cache/clear for the session holding "tokA"
ClearUserCache(status_200) ==
    LET r == service_invalidate_user_cache(St, status_200) IN
    /\ Commit(r.st)
    /\ last' = Obs("clear_user_cache", r.user_id, PyNone, PyNone, 0, FALSE,
                   FALSE, r.err, Present(CacheKey("profileA")))

\* GET /health
HealthCheck(latency_ms) ==
    LET r == cache_health_check(St, latency_ms) IN
    /\ Commit(r.st)
    /\ last' = Obs("health", HealthKey, r.latency_ms, r.status, 0, FALSE,
                   FALSE, FALSE, Present(HealthKey))

EnvObs == Obs("env", "", PyNone, PyNone, 0, FALSE, FALSE, FALSE, FALSE)

\* the networked store becomes unreachable / reachable again
RedisDown ==
    /\ redis_up /\ redis_up' = FALSE /\ last' = EnvObs
    /\ UNCHANGED <<session, now, health, inval, use_redis, redis_client, memory_cache, redis_db,
                   probes,
                   touched>>

RedisBack ==
    /\ ~redis_up /\ redis_up' = TRUE /\ last' = EnvObs
    /\ UNCHANGED <<session, now, health, inval, use_redis, redis_client, memory_cache, redis_db,
                   probes,
                   touched>>

\* variant: the fallback store enforces the TTL as well
Expire_BothStores(key) ==
    /\ Present(key)
    /\ redis_db' = Without(redis_db, {key})
    /\ memory_cache' = Without(memory_cache, {key})
    /\ last' = Obs("expire", key, PyNone, PyNone, 0, FALSE, FALSE, FALSE,
                   TRUE)
    /\ UNCHANGED <<session, now, health, inval, use_redis, redis_client, redis_up, probes, touched>>

\* the time given to set(key, value, expire) elapses: the networked store
\* drops the entry (setex); the dict of the fallback store keeps no time
Expire(key) ==
    /\ Present(key)
    /\ redis_db' = Without(redis_db, {key})
    /\ last' = Obs("expire", key, PyNone, PyNone, 0, FALSE, FALSE, FALSE,
                   TRUE)
    /\ UNCHANGED <<session, now, health, inval, use_redis, redis_client, memory_cache, redis_up,
                   probes,
                   touched>>

\* another client of the networked store overwrites an entry
Corrupt(key) ==
    /\ key \in DOMAIN redis_db /\ redis_db[key] # NotJson
    /\ redis_db' = [redis_db EXCEPT ![key] = NotJson] /\ last' = EnvObs
    /\ UNCHANGED <<session, now, health, inval, use_redis, redis_client, memory_cache, redis_up,
                   probes,
                   touched>>

\* the environment of the process
Env ==
    \/ RedisDown
    \/ RedisBack
    \/ \E key \in AllKeys : Expire(key)
    \/ \E key \in CorruptKeys : Corrupt(key)

\* the memoized calls and the invalidations issued by request handlers
Next ==
    \/ \E c \in Calls, status_200 \in BOOLEAN : Call(c, status_200)
    \/ \E user_id \in Idents : Invalidate(user_id)
    \/ \E status_200 \in BOOLEAN : ClearUserCache(status_200)
    \/ Env

Spec == Init /\ [][Next]_vars

\* the CacheManager interface used directly, with the health check
NextStore ==
    \/ \E key \in DirectKeys : Get(key)
    \/ \E key \in DirectKeys, value \in SetValues,
          expire \in {HealthExpire, ExpireAffinity} : Set(key, value, expire)
    \/ \E key \in DirectKeys : Delete(key)
    \/ Clear
    \/ \E key \in DirectKeys : Exists(key)
    \/ \E user_id \in Idents : Invalidate(user_id)
    \/ \E latency_ms \in Latencies : HealthCheck(latency_ms)
    \/ Env

SpecStore == Init /\ [][NextStore]_vars

\* two wrappers generate the cache keys of their calls
GenerateKeys(c1, c2) ==
    /\ last' = [op |-> "generate_cache_key", first |-> c1, second |-> c2,
                key1 |-> wrapper_cache_key(c1),
                key2 |-> wrapper_cache_key(c2)]
    /\ UNCHANGED <<session, now, health, inval, use_redis, redis_client, memory_cache, redis_db,
                   redis_up,
                   probes, touched>>

\* key generation alone
NextKeys == \E c1 \in KeyCalls, c2 \in KeyCalls : GenerateKeys(c1, c2)

SpecKeys == Init /\ [][NextKeys]_vars

(* invalidate_user_cache on the fallback store, statement by statement, as
   one request thread runs it while other threads use the manager: the list
   comprehension takes one key of the dict per step, then the loop pops one
   key per step. The dict's key iterator raises RuntimeError when the size
   of the dict is not the one it had when the iteration began; the except
   clause of invalidate_user_cache swallows it. *)

StepObs(user_id) ==
    Obs("invalidate_step", user_id, PyNone, PyNone, 0, FALSE, FALSE, FALSE,
        FALSE)

\* `for key in cache_manager.memory_cache.keys()`: the iteration begins
InvBegin(user_id) ==
    /\ ~UsesRedis /\ inval = Idle
    /\ inval' = [pc |-> "iter", user_id |-> user_id,
                 di_used |-> Cardinality(DOMAIN memory_cache),
                 todo |-> DOMAIN memory_cache,
                 keys_to_remove |-> {},
                 start |-> DOMAIN memory_cache]
    /\ touched' = touched \cup {"memory"}
    /\ last' = StepObs(user_id)
    /\ UNCHANGED <<session, now, health,
                   use_redis, redis_client, memory_cache, redis_db, redis_up,
                   probes>>

\* one step of the list comprehension: the next key and `user_id in key`
InvNext ==
    /\ inval.pc = "iter"
    /\ IF Cardinality(DOMAIN memory_cache) # inval.di_used
       THEN /\ inval' = Idle
            /\ last' = Obs("invalidate", inval.user_id, PyNone, PyNone, 0,
                           FALSE, FALSE, TRUE, FALSE)
       ELSE IF inval.todo \cap DOMAIN memory_cache = {}
       THEN /\ inval' = [inval EXCEPT !.pc = "pop"]
            /\ last' = StepObs(inval.user_id)
       ELSE \E key \in inval.todo \cap DOMAIN memory_cache :
              /\ inval' = [inval EXCEPT
                     !.todo = @ \ {key},
                     !.keys_to_remove =
                         IF key \in KeysContaining[inval.user_id]
                         THEN @ \cup {key} ELSE @]
              /\ last' = StepObs(inval.user_id)
    /\ UNCHANGED <<session, now, health,
                   use_redis, redis_client, memory_cache, redis_db, redis_up,
                   probes, touched>>

\* one step of `for key in keys_to_remove: memory_cache.pop(key, None)`
InvPop ==
    /\ inval.pc = "pop"
    /\ IF inval.keys_to_remove = {}
       THEN /\ inval' = Idle
            /\ last' = Obs("invalidate", inval.user_id, PyNone, PyNone, 0,
                           FALSE, FALSE, FALSE, TRUE)
            /\ UNCHANGED memory_cache
       ELSE \E key \in inval.keys_to_remove :
              /\ memory_cache' = Without(memory_cache, {key})
              /\ inval' = [inval EXCEPT !.keys_to_remove = @ \ {key}]
              /\ last' = StepObs(inval.user_id)
    /\ UNCHANGED <<session, now, health,
                   use_redis, redis_client, redis_db, redis_up, probes,
                   touched>>

\* set(key, ...) by another thread; while an invalidation runs, only on the
\* keys its identifier does not occur in, so that no entry the invalidation
\* has to remove is written again before it ends
ThreadSet(key, value) ==
    /\ IF inval.pc = "idle" THEN TRUE
       ELSE key \notin KeysContaining[inval.user_id]
    /\ Set(key, value, HealthExpire)

\* the request threads on the fallback store
NextThreads ==
    \/ \E user_id \in {"stats:a864", ""} : InvBegin(user_id)
    \/ InvNext
    \/ InvPop
    \/ \E key \in DirectKeys, value \in {PyList, PyNone} :
          ThreadSet(key, value)
    \/ \E key \in DirectKeys : Delete(key)
    \/ \E key \in DirectKeys : Get(key)
    \/ Clear

InitThreads == Init /\ ~UsesRedis

SpecThreads == InitThreads /\ [][NextThreads]_vars

----------------------------------------------------------------------------
(* AffinityService. Scores in [0, 1] are integers in units of 1/Scale; the
   rationals the code computes on these inputs are exact in that unit. *)

Scale == 3600000

\* an artist dictionary of a profile
Artist(id, name, popularity, genres) ==
    [id |-> id, name |-> name, popularity |-> popularity, genres |-> genres]

\* the artists profiles are made of; "a1" comes in two copies that differ
\* in popularity and genres, as two snapshots of one artist can
ArtistPool ==
    {Artist("a1", "Radiohead", 82, <<"rock", "art rock">>),
     Artist("a1", "Radiohead", 60, <<"rock">>),
     Artist("a2", "blink-182", 79, <<"pop punk", "rock">>),
     Artist("a3", "Tame Impala", 81, <<>>),
     Artist("a4", "Nina Simone", 15, <<"Soul">>)}

MaxLen == 3

\* the profiles: artist lists of at most MaxLen artists, ids unique in a list
Profiles ==
    UNION {{s \in [1..n -> ArtistPool] :
              \A i \in 1..n, j \in 1..n : i < j => s[i].id # s[j].id}
           : n \in 0..MaxLen}

\* self.weights, in tenths
weights_GenreFirst ==
    [common_artists |-> 3, genre_similarity |-> 4,
     popularity_similarity |-> 2, artist_diversity |-> 1]

weights ==
    [common_artists |-> 4, genre_similarity |-> 3,
     popularity_similarity |-> 2, artist_diversity |-> 1]

\* Python's round(n / d) for d > 0 on a float: the nearest integer; when
\* n / d is exactly halfway the representation error of the float decides
Round(n, d) ==
    LET q == n \div d
        r == n % d
    IN IF 2 * r = d THEN {q, q + 1}
       ELSE IF 2 * r > d THEN {q + 1} ELSE {q}

\* artist.get(field, default)
dict_get(artist, field, default) ==
    IF field \in DOMAIN artist THEN artist[field] ELSE default

\* sum(artist.get("popularity", 50) for artist in artists)
RECURSIVE SumPopularity(_)
SumPopularity(artists) ==
    IF artists = <<>> THEN 0
    ELSE dict_get(Head(artists), "popularity", 50) + SumPopularity(Tail(artists))

Abs(x) == IF x < 0 THEN -x ELSE x

Max(x, y) == IF x > y THEN x ELSE y

Ids(artists) == {artists[i].id : i \in DOMAIN artists}

\* variant: artists2 is indexed by name
find_common_artists_ByName(artists1, artists2) ==
    SelectSeq(artists1,
              LAMBDA artist :
                  artist.id \in {artists2[i].name : i \in DOMAIN artists2})

\* variant: the result follows artists2
find_common_artists_OrderOfSecond(artists1, artists2) ==
    LET kept == SelectSeq(artists2, LAMBDA artist : artist.id \in Ids(artists1))
    IN [k \in DOMAIN kept |->
          CHOOSE a \in {artists1[i] : i \in DOMAIN artists1} :
              a.id = kept[k].id]

\* find_common_artists: artists1_ids = {id: artist} keeps the place of an
\* id's first artist and the value of its last; then the ids in artists2
find_common_artists(artists1, artists2) ==
    LET n == Len(artists1)
        firsts == SelectSeq([i \in 1..n |-> i],
                            LAMBDA i : \A j \in 1..(i - 1) :
                                           artists1[j].id # artists1[i].id)
        kept == SelectSeq(firsts,
                          LAMBDA i : artists1[i].id \in Ids(artists2))
        LastOf(id) == CHOOSE i \in 1..n :
                          /\ artists1[i].id = id
                          /\ \A j \in (i + 1)..n : artists1[j].id # id
    IN [k \in DOMAIN kept |-> artists1[LastOf(artists1[kept[k]].id)]]

\* the genres an artist adds: `if "genres" in artist and artist["genres"]`
GenresOf(artist) ==
    IF "genres" \in DOMAIN artist
    THEN {artist.genres[i] : i \in DOMAIN artist.genres}
    ELSE {}

\* _extract_genres: the set of genres of the artists
_extract_genres(artists) ==
    UNION {GenresOf(a) : a \in {artists[k] : k \in DOMAIN artists}}

\* variant: the common genres over the genres of artists1
calculate_genre_similarity_OverFirst(artists1, artists2) ==
    LET genres1 == _extract_genres(artists1)
        genres2 == _extract_genres(artists2)
    IN IF genres1 = {} \/ genres2 = {} THEN 0
       ELSE (Cardinality(genres1 \cap genres2) * Scale)
                \div Cardinality(genres1)

\* calculate_genre_similarity: Jaccard index, 0 when a side has no genre
calculate_genre_similarity(artists1, artists2) ==
    LET genres1 == _extract_genres(artists1)
        genres2 == _extract_genres(artists2)
    IN IF genres1 = {} \/ genres2 = {} THEN 0
       ELSE (Cardinality(genres1 \cap genres2) * Scale)
                \div Cardinality(genres1 \cup genres2)

\* variant: max_diff = 50 and no max(0.0, ...)
calculate_popularity_similarity_NoClamp(artists1, artists2) ==
    LET n1 == Len(artists1)
        n2 == Len(artists2)
        diff == Abs(SumPopularity(artists1) * n2 - SumPopularity(artists2) * n1)
    IN Scale - (diff * (Scale \div (50 * n1 * n2)))

\* calculate_popularity_similarity: 1 - |avg_pop1 - avg_pop2| / 100,
\* at least 0
calculate_popularity_similarity(artists1, artists2) ==
    LET n1 == Len(artists1)
        n2 == Len(artists2)
        diff == Abs(SumPopularity(artists1) * n2 - SumPopularity(artists2) * n1)
    IN IF n1 = 0 \/ n2 = 0 THEN 0
       ELSE Max(0, Scale - (diff * (Scale \div (100 * n1 * n2))))

\* Counter(genres): how many artists carry each genre
GenreCounts(artists) ==
    [g \in _extract_genres(artists) |->
        Cardinality({k \in DOMAIN artists : g \in GenresOf(artists[k])})]

\* the shape of a Counter: {<<count, number of genres with that count>>}
CountShape(counts) ==
    {<<n, Cardinality({g \in DOMAIN counts : counts[g] = n})>>
     : n \in {counts[g] : g \in DOMAIN counts}}

\* _calculate_genre_diversity: the Shannon index -sum(p * log2(p)) over
\* log2(number of genres), 0.0 without genres and for a single genre; the
\* values are those the code returns for each shape of counts, in 1/Scale
_calculate_genre_diversity(artists) ==
    LET shape == CountShape(GenreCounts(artists)) IN
    CASE shape = {} -> 0
      [] shape = {<<1, 1>>} -> 0
      [] shape = {<<1, 2>>} -> Scale
      [] shape = {<<1, 3>>} -> Scale
      [] shape = {<<1, 1>>, <<2, 1>>} -> 3305865
      [] shape = {<<1, 2>>, <<2, 1>>} -> 3407021
      [] shape = {<<1, 3>>, <<2, 1>>} -> 3459471

\* calculate_diversity_compatibility: 1 - |diversity1 - diversity2|
calculate_diversity_compatibility(artists1, artists2) ==
    Scale - Abs(_calculate_genre_diversity(artists1)
                  - _calculate_genre_diversity(artists2))

\* the code point of a character of a genre tag
Letters == <<"abcdefghijklmnopqrstuvwxyz", "ABCDEFGHIJKLMNOPQRSTUVWXYZ">>

\* variant: upper case letters count as their lower case ones
Ord_CaseFolded(c) ==
    IF c = " " THEN 32
    ELSE LET i == CHOOSE i \in 1..26 :
                      \/ SubSeq(Letters[1], i, i) = c
                      \/ SubSeq(Letters[2], i, i) = c
         IN 96 + i

Ord(c) ==
    IF c = " " THEN 32
    ELSE IF \E i \in 1..26 : SubSeq(Letters[2], i, i) = c
    THEN 64 + (CHOOSE i \in 1..26 : SubSeq(Letters[2], i, i) = c)
    ELSE 96 + (CHOOSE i \in 1..26 : SubSeq(Letters[1], i, i) = c)

\* str.__lt__: at the first place where s and t differ, s has ended or has
\* the character with the smaller code point
StrLess(s, t) ==
    \E i \in 1..Len(t) :
        /\ i - 1 <= Len(s)
        /\ SubSeq(s, 1, i - 1) = SubSeq(t, 1, i - 1)
        /\ \/ Len(s) = i - 1
           \/ Ord(SubSeq(s, i, i)) < Ord(SubSeq(t, i, i))

\* sorted(list(strings))
RECURSIVE sorted(_)
sorted(strings) ==
    IF strings = {} THEN <<>>
    ELSE LET first == CHOOSE s \in strings :
                          \A o \in strings \ {s} : StrLess(s, o)
         IN <<first>> \o sorted(strings \ {first})

\* find_common_genres: sorted(list(genres1 & genres2))
find_common_genres(artists1, artists2) ==
    LET genres1 == _extract_genres(artists1)
        genres2 == _extract_genres(artists2)
    IN sorted(genres1 \cap genres2)

\* variant: the plural wording for every count above 0
common_text_AlwaysPlural(common_count) ==
    IF common_count = 0 THEN ""
    ELSE " You share " \o ToString(common_count) \o " common artists."

\* the common_text of generate_analysis
common_text(common_count) ==
    IF common_count = 0 THEN ""
    ELSE IF common_count = 1
    THEN " You share " \o ToString(common_count) \o " common artist."
    ELSE " You share " \o ToString(common_count) \o " common artists."

\* generate_analysis(score, common_count, ...)
generate_analysis(score, common_count) ==
    LET text ==
            IF score >= 85
            THEN <<"exceptional musical compatibility",
                   "You're practically musical soulmates!">>
            ELSE IF score >= 70
            THEN <<"great musical compatibility",
                   "You have a lot in common musically.">>
            ELSE IF score >= 55
            THEN <<"good musical compatibility",
                   "You share some interesting musical preferences.">>
            ELSE IF score >= 40
            THEN <<"moderate musical compatibility",
                   "You have some overlapping tastes, but also unique preferences.">>
            ELSE IF score >= 25
            THEN <<"limited musical compatibility",
                   "Your musical tastes are quite different, but that's not bad!">>
            ELSE <<"very different musical preferences",
                   "You each have unique musical styles - variety is the spice of life!">>
    IN "You have " \o text[1] \o "! " \o text[2] \o common_text(common_count)

\* _create_empty_result
_create_empty_result ==
    [affinity_score |-> 0,
     analysis |-> "Unable to calculate affinity - insufficient data.",
     common_artists |-> <<>>,
     common_genres |-> <<>>,
     metrics |-> [artist_similarity |-> "0%", genre_similarity |-> "0%",
                  popularity_similarity |-> "0%", overall_match |-> "0%"],
     detailed_scores |-> [common_artists |-> 0, genre_similarity |-> 0,
                          popularity_similarity |-> 0,
                          diversity_compatibility |-> 0]]

\* variant: the empty result only when both lists are empty
InsufficientData_Both(user1_artists, user2_artists) ==
    user1_artists = <<>> /\ user2_artists = <<>>

\* `if not user1_artists or not user2_artists`
InsufficientData(user1_artists, user2_artists) ==
    user1_artists = <<>> \/ user2_artists = <<>>

\* f"{n}%"
Percent(n) == ToString(n) \o "%"

\* an artist without the field: artist[field] raises KeyError
Lacking(artists, field) ==
    \E k \in DOMAIN artists : field \notin DOMAIN artists[k]

\* calculate_affinity: the reports it can return (one, or one per direction
\* of an exactly halfway round); artist["id"] in find_common_artists and
\* artist["name"] in the report raise KeyError
calculate_affinity(user1_artists, user2_artists) ==
    IF InsufficientData(user1_artists, user2_artists)
    THEN {_create_empty_result}
    ELSE IF Lacking(user1_artists, "id") \/ Lacking(user2_artists, "id")
    THEN {[raised |-> "KeyError"]}
    ELSE IF Lacking(find_common_artists(user1_artists, user2_artists), "name")
    THEN {[raised |-> "KeyError"]}
    ELSE
    LET common_artists == find_common_artists(user1_artists, user2_artists)
        common_artist_score ==
            (Len(common_artists) * Scale)
                \div Max(Len(user1_artists), Len(user2_artists))
        genre_similarity_score ==
            calculate_genre_similarity(user1_artists, user2_artists)
        popularity_similarity_score ==
            calculate_popularity_similarity(user1_artists, user2_artists)
        diversity_score ==
            calculate_diversity_compatibility(user1_artists, user2_artists)
        \* ten times the overall score
        overall_score ==
            common_artist_score * weights.common_artists
              + genre_similarity_score * weights.genre_similarity
              + popularity_similarity_score * weights.popularity_similarity
              + diversity_score * weights.artist_diversity
    IN {[affinity_score |-> affinity_percentage,
         analysis |-> generate_analysis(affinity_percentage,
                                        Len(common_artists)),
         common_artists |->
             [k \in DOMAIN common_artists |->
                 [name |-> common_artists[k].name,
                  popularity |-> dict_get(common_artists[k], "popularity", 0)]],
         common_genres |-> find_common_genres(user1_artists, user2_artists),
         metrics |-> [artist_similarity |-> Percent(c),
                      genre_similarity |-> Percent(g),
                      popularity_similarity |-> Percent(p),
                      overall_match |-> Percent(affinity_percentage)],
         detailed_scores |-> [common_artists |-> c, genre_similarity |-> g,
                              popularity_similarity |-> p,
                              diversity_compatibility |-> d]]
        : affinity_percentage \in Round(overall_score * 10, Scale),
          c \in Round(common_artist_score * 100, Scale),
          g \in Round(genre_similarity_score * 100, Scale),
          p \in Round(popularity_similarity_score * 100, Scale),
          d \in Round(diversity_score * 100, Scale)}

\* the route has the two profiles at hand
InitAffinity ==
    /\ use_redis = FALSE /\ redis_client = "None" /\ redis_up = FALSE
    /\ probes = 0 /\ touched = {} /\ inval = Idle
    /\ session = EmptyMap /\ now = 0 /\ health = NoChecks
    /\ memory_cache = EmptyMap /\ redis_db = EmptyMap
    /\ \E user1_artists \in Profiles, user2_artists \in Profiles :
         last = [op |-> "profiles", user1_artists |-> user1_artists,
                 user2_artists |-> user2_artists]

\* affinity_service.calculate_affinity(user1_artists, user2_artists)
CalculateAffinity ==
    /\ last.op = "profiles"
    /\ \E result \in calculate_affinity(last.user1_artists,
                                        last.user2_artists) :
         last' = [op |-> "calculate_affinity",
                  user1_artists |-> last.user1_artists,
                  user2_artists |-> last.user2_artists,
                  result |-> result]
    /\ UNCHANGED <<session, now, health, inval, use_redis, redis_client, memory_cache, redis_db,
                   redis_up, probes, touched>>

NextAffinity == CalculateAffinity

SpecAffinity == InitAffinity /\ [][NextAffinity]_vars

\* calculate_affinity on arguments of any shape: artist dictionaries that
\* lack fields, and arguments that are not lists
RecordPool ==
    {[id |-> "a1", name |-> "Radiohead", popularity |-> 82,
      genres |-> <<"rock", "art rock">>],
     [id |-> "a1", name |-> "Radiohead", genres |-> <<"rock">>],
     [id |-> "a2", name |-> "blink-182", popularity |-> 79],
     [id |-> "a3", name |-> "Tame Impala"],
     [name |-> "Nina Simone", popularity |-> 15, genres |-> <<"Soul">>],
     [id |-> "a4", popularity |-> 15, genres |-> <<"Soul">>]}

MaxRecords == 2

\* a Python list of dictionaries
PyListOf(items) == [type |-> "list", items |-> items]

\* the values passed as a profile: lists of at most MaxRecords dictionaries
\* (no id twice), None, and the integers 0 and 7
Arguments ==
    UNION {{PyListOf(s) : s \in
              {s \in [1..n -> RecordPool] :
                  \A i \in 1..n, j \in 1..n :
                      (i < j /\ "id" \in DOMAIN s[i] /\ "id" \in DOMAIN s[j])
                          => s[i].id # s[j].id}}
           : n \in 0..MaxRecords}
      \cup {[type |-> "NoneType"], [type |-> "int", value |-> 0],
            [type |-> "int", value |-> 7]}

\* `not value`
Falsy(value) ==
    CASE value.type = "list" -> value.items = <<>>
      [] value.type = "NoneType" -> TRUE
      [] value.type = "int" -> value.value = 0

\* calculate_affinity on two Python values: the truth test first, then
\* find_common_artists iterates artists1 and then artists2, and iterating
\* an integer raises TypeError
calculate_affinity_call(user1_artists, user2_artists) ==
    IF Falsy(user1_artists) \/ Falsy(user2_artists)
    THEN {_create_empty_result}
    ELSE IF user1_artists.type # "list" THEN {[raised |-> "TypeError"]}
    ELSE IF Lacking(user1_artists.items, "id") THEN {[raised |-> "KeyError"]}
    ELSE IF user2_artists.type # "list" THEN {[raised |-> "TypeError"]}
    ELSE calculate_affinity(user1_artists.items, user2_artists.items)

InitRecords ==
    /\ use_redis = FALSE /\ redis_client = "None" /\ redis_up = FALSE
    /\ probes = 0 /\ touched = {} /\ inval = Idle
    /\ session = EmptyMap /\ now = 0 /\ health = NoChecks
    /\ memory_cache = EmptyMap /\ redis_db = EmptyMap
    /\ \E user1_artists \in Arguments, user2_artists \in Arguments :
         last = [op |-> "arguments", user1_artists |-> user1_artists,
                 user2_artists |-> user2_artists]

\* affinity_service.calculate_affinity(user1_artists, user2_artists)
CallCalculateAffinity ==
    /\ last.op = "arguments"
    /\ \E result \in calculate_affinity_call(last.user1_artists,
                                             last.user2_artists) :
         last' = [op |-> "calculate_affinity_call",
                  user1_artists |-> last.user1_artists,
                  user2_artists |-> last.user2_artists,
                  result |-> result]
    /\ UNCHANGED <<session, now, health, inval, use_redis, redis_client, memory_cache, redis_db,
                   redis_up, probes, touched>>

NextRecords == CallCalculateAffinity

SpecRecords == InitRecords /\ [][NextRecords]_vars

\* generate_analysis on its own: every percentage with every count of
\* common artists
Scores == 0..100

InitAnalysis ==
    /\ use_redis = FALSE /\ redis_client = "None" /\ redis_up = FALSE
    /\ probes = 0 /\ touched = {} /\ inval = Idle
    /\ session = EmptyMap /\ now = 0 /\ health = NoChecks
    /\ memory_cache = EmptyMap /\ redis_db = EmptyMap
    /\ \E score \in Scores, common_count \in 0..MaxLen :
         last = [op |-> "scored", score |-> score,
                 common_count |-> common_count]

\* analysis = self.generate_analysis(affinity_percentage, len(common_artists), ...)
GenerateAnalysis ==
    /\ last.op = "scored"
    /\ last' = [op |-> "generate_analysis", score |-> last.score,
                common_count |-> last.common_count,
                analysis |-> generate_analysis(last.score, last.common_count)]
    /\ UNCHANGED <<session, now, health, inval, use_redis, redis_client, memory_cache, redis_db,
                   redis_up, probes, touched>>

NextAnalysis == GenerateAnalysis

SpecAnalysis == InitAnalysis /\ [][NextAnalysis]_vars

(* cache_health_check statement by statement, as the request threads of
   GET /health run it at the same time on the one cache_manager: each check
   sets, gets and deletes the key "health_check_test". *)

\* test_value of the check of each thread
TestValue == [t \in Threads |->
                 IF t = "t1" THEN Sentinel ELSE LaterSentinel]

HealthStep(op, t, status) == [op |-> op, thread |-> t, status |-> status]

\* cache_manager.set(test_key, test_value, expire=60)
HealthSet(t) ==
    /\ health[t].pc = "idle"
    /\ CommitStore(set(St, HealthKey, TestValue[t], HealthExpire).st)
    /\ health' = [health EXCEPT ![t] = [pc |-> "get"]]
    /\ last' = HealthStep("health_set", t, "unknown")
    /\ UNCHANGED <<use_redis, redis_client, redis_up, probes, inval, session,
                   now>>

\* retrieved_value = cache_manager.get(test_key)
HealthGet(t) ==
    /\ health[t].pc = "get"
    /\ LET r == get(St, HealthKey) IN
       /\ CommitStore(r.st)
       /\ health' = [health EXCEPT
                        ![t] = [pc |-> "delete", retrieved_value |-> r.res]]
    /\ last' = HealthStep("health_get", t, "unknown")
    /\ UNCHANGED <<use_redis, redis_client, redis_up, probes, inval, session,
                   now>>

\* cache_manager.delete(test_key), then the report
HealthDelete(t) ==
    /\ health[t].pc = "delete"
    /\ CommitStore(delete(St, HealthKey).st)
    /\ health' = [health EXCEPT ![t] = Idle]
    /\ last' = HealthStep("health_report", t,
                          HealthStatus(health[t].retrieved_value))
    /\ UNCHANGED <<use_redis, redis_client, redis_up, probes, inval, session,
                   now>>

\* the health checks of the request threads, on a store that works
NextHealth ==
    \/ \E t \in Threads : HealthSet(t)
    \/ \E t \in Threads : HealthGet(t)
    \/ \E t \in Threads : HealthDelete(t)

SpecHealth == Init /\ [][NextHealth]_vars

----------------------------------------------------------------------------
(* routes/auth.py and the session-bound routes of routes/api.py, for one
   client. The session is a dict; times are minutes since the start. *)

\* timedelta(minutes=5) of is_token_valid
TokenBuffer == 5

\* expires_in of the token endpoint's answers, in minutes (3600 seconds)
Lifetimes == {60}

\* the time that passes between two requests, in minutes
Ticks == {28}

MaxNow == 140

\* secrets.token_urlsafe(16)
OAuthStates == {"s1", "s2"}

\* datetime.isoformat()
isoformat(t) == "T+" \o ToString(t) \o "min"

\* the texts of the instants of the model
IsoTexts == [t \in 0..(MaxNow + 61) |-> isoformat(t)]

\* datetime.fromisoformat()
fromisoformat(s) == CHOOSE t \in DOMAIN IsoTexts : IsoTexts[t] = s

\* an answer of the token endpoint: status 200 with expires_in and possibly
\* a refresh token, or another status
TokenAnswers ==
    {[ok |-> FALSE]}
      \cup {[ok |-> TRUE, expires_in |-> l, refresh_token |-> r] :
               l \in Lifetimes, r \in {"ref", PyNone}}

\* SpotifyService.get_access_token(code) at time t
get_access_token(code, answer, t) ==
    IF answer.ok
    THEN [raised |-> FALSE, access_token |-> "tokA",
          refresh_token |-> answer.refresh_token,
          expires_at |-> t + answer.expires_in]
    ELSE [raised |-> TRUE]

\* SpotifyService.refresh_access_token(refresh_token) at time t
refresh_access_token(refresh_token, answer, t) ==
    IF answer.ok
    THEN [raised |-> FALSE, access_token |-> "tokB",
          expires_at |-> t + answer.expires_in]
    ELSE [raised |-> TRUE]

\* variant: no buffer before the expiry
is_token_valid_NoBuffer(token_data, t) ==
    IF "expires_at" \notin DOMAIN token_data THEN FALSE
    ELSE t < fromisoformat(token_data.expires_at)

\* SpotifyService.is_token_valid(token_data) at time t
is_token_valid(token_data, t) ==
    IF "expires_at" \notin DOMAIN token_data THEN FALSE
    ELSE t < fromisoformat(token_data.expires_at) - TokenBuffer

\* session[key] = value
Put(s, key, value) == (key :> value) @@ s

\* session['spotify_token'].update({access_token, expires_at})
Refreshed(s, new_token_data) ==
    [s EXCEPT !["spotify_token"] =
        [@ EXCEPT !.access_token = new_token_data.access_token,
                  !.expires_at = isoformat(new_token_data.expires_at)]]

\* get_valid_access_token() on session s at time t; answer is what the
\* token endpoint says if it is asked to refresh
get_valid_access_token(s, t, answer) ==
    IF "spotify_token" \notin DOMAIN s
    THEN [token |-> PyNone, refresh |-> "none", session |-> s]
    ELSE LET token_data == s["spotify_token"] IN
         IF is_token_valid(token_data, t)
         THEN [token |-> token_data.access_token, refresh |-> "none",
               session |-> s]
         ELSE IF Truthy(token_data.refresh_token)
         THEN LET new_token_data ==
                      refresh_access_token(token_data.refresh_token, answer, t)
              IN IF new_token_data.raised
                 THEN [token |-> PyNone, refresh |-> "failed",
                       session |-> EmptyMap]
                 ELSE [token |-> new_token_data.access_token,
                       refresh |-> "done",
                       session |-> Refreshed(s, new_token_data)]
         ELSE [token |-> PyNone, refresh |-> "none", session |-> s]

\* what the callback keeps of the profile
SessionProfile ==
    "{'id': 'alice', 'display_name': 'Unknown User', 'email': None, 'images': []}"

\* the key of get_user_profile("tokA") on the instance of routes/auth.py
AuthProfileKey ==
    _generate_cache_key(SpotifyApi,
        "{\"args\": [\"get_user_profile\", \"" \o AuthSelfRepr
            \o "\", \"tokA\"], \"kwargs\": {}}")

\* the keys of _get_cached_user_stats("tokB") and of its get_top_artists
StatsKeyB ==
    _generate_cache_key(UserStats,
        "{\"args\": [\"_get_cached_user_stats\", \"tokB\"], \"kwargs\": {}}")

TopKeyB ==
    _generate_cache_key(SpotifyApi,
        "{\"args\": [\"get_top_artists\", \"" \o SelfRepr
            \o "\", \"tokB\"], \"kwargs\": [[\"limit\", 50]]}")

\* _get_cached_user_stats(access_token) for the token of the code exchange
\* ("tokA") and for a refreshed token ("tokB")
StatsFor(st, access_token, status_200) ==
    IF access_token = "tokA" THEN _get_cached_user_stats(st, status_200)
    ELSE LET st0 == AfterLookup(st, StatsKeyB)
             top == cached(st0, TopKeyB, ExpireTopArtists,
                           Request(AfterLookup(st0, TopKeyB), status_200,
                                   TopArtists))
         IN cached(st, StatsKeyB, ExpireUserStats,
                   [raised |-> top.raised,
                    val |-> IF top.raised THEN PyNone ELSE Stats,
                    st |-> top.st])

\* the response of a route: its HTTP status, and for the routes that call
\* get_valid_access_token the token it returned and what the refresh did
AuthObs(op, status, token, refresh) ==
    [op |-> op, status |-> status, token |-> token, refresh |-> refresh]

\* GET /auth/login
Login(state) ==
    /\ session' = Put(session, "oauth_state", state)
    /\ last' = AuthObs("login", 200, PyNone, "none")
    /\ UNCHANGED <<use_redis, redis_client, memory_cache, redis_db, redis_up,
                   probes, touched, inval, now, health>>

\* the query strings of GET /auth/callback
CallbackArgs == {[error |-> "access_denied"], [code |-> "c1"], EmptyMap}

\* GET /auth/callback: a redirect to the front end
CallbackGet(args) ==
    /\ last' = [op |-> "callback_get", status |-> 302,
                location |-> IF "error" \in DOMAIN args
                             THEN "/?error=" \o args.error
                             ELSE IF "code" \notin DOMAIN args
                             THEN "/?error=no_code"
                             ELSE "/?code=" \o args.code]
    /\ UNCHANGED <<use_redis, redis_client, memory_cache, redis_db, redis_up,
                   probes, touched, inval, session, now, health>>

\* the JSON bodies of POST /auth/callback
CallbackData ==
    {EmptyMap, [code |-> "c1"]}
      \cup {[code |-> "c1", state |-> s] : s \in OAuthStates}

\* POST /auth/callback: code exchange, then the profile (a memoized call),
\* each write to the session as it happens; the except clause answers 500
\* and leaves the session as it is by then
CallbackPost(data, answer, status_200) ==
    IF "code" \notin DOMAIN data
    THEN /\ last' = AuthObs("callback", 400, PyNone, "none")
         /\ UNCHANGED <<use_redis, redis_client, memory_cache, redis_db,
                        redis_up, probes, touched, inval, session, now,
                        health>>
    ELSE LET token_data == get_access_token(data.code, answer, now) IN
         IF token_data.raised
         THEN /\ last' = AuthObs("callback", 500, PyNone, "none")
              /\ UNCHANGED <<use_redis, redis_client, memory_cache, redis_db,
                             redis_up, probes, touched, inval, session, now,
                             health>>
         ELSE LET with_token ==
                      Put(session, "spotify_token",
                          [access_token |-> token_data.access_token,
                           refresh_token |-> token_data.refresh_token,
                           expires_at |-> isoformat(token_data.expires_at),
                           token_type |-> "Bearer"])
                  user_profile ==
                      cached(St, AuthProfileKey, ExpireUserProfile,
                             Request(AfterLookup(St, AuthProfileKey),
                                     status_200, ProfileAlice))
              IN /\ CommitStore(user_profile.st)
                 /\ IF user_profile.raised
                    THEN /\ session' = with_token
                         /\ last' = AuthObs("callback", 500, PyNone, "none")
                    ELSE /\ session' =
                              Without(Put(with_token, "user_profile",
                                          SessionProfile), {"oauth_state"})
                         /\ last' = AuthObs("callback", 200, PyNone, "none")
                 /\ UNCHANGED <<use_redis, redis_client, redis_up, probes,
                                inval, now, health>>

\* POST /auth/logout
Logout ==
    /\ session' = EmptyMap
    /\ last' = AuthObs("logout", 200, PyNone, "none")
    /\ UNCHANGED <<use_redis, redis_client, memory_cache, redis_db, redis_up,
                   probes, touched, inval, now, health>>

\* GET /auth/status
Status(answer) ==
    /\ IF {"spotify_token", "user_profile"} \subseteq DOMAIN session
       THEN LET token_data == session["spotify_token"] IN
            IF is_token_valid(token_data, now)
            THEN /\ session' = session
                 /\ last' = AuthObs("status", 200, PyNone, "none")
            ELSE IF Truthy(token_data.refresh_token)
            THEN LET new_token_data ==
                         refresh_access_token(token_data.refresh_token,
                                              answer, now)
                 IN IF new_token_data.raised
                    THEN /\ session' = EmptyMap
                         /\ last' = AuthObs("status", 200, PyNone, "failed")
                    ELSE /\ session' = Refreshed(session, new_token_data)
                         /\ last' = AuthObs("status", 200, PyNone, "done")
            ELSE /\ session' = EmptyMap
                 /\ last' = AuthObs("status", 200, PyNone, "none")
       ELSE /\ session' = session
            /\ last' = AuthObs("status", 200, PyNone, "none")
    /\ UNCHANGED <<use_redis, redis_client, memory_cache, redis_db, redis_up,
                   probes, touched, inval, now, health>>

\* GET /api/user
GetUser(answer) ==
    /\ IF "user_profile" \notin DOMAIN session
       THEN /\ session' = session
            /\ last' = AuthObs("get_user", 401, PyNone, "none")
       ELSE LET r == get_valid_access_token(session, now, answer) IN
            /\ session' = r.session
            /\ last' = AuthObs("get_user",
                               IF Truthy(r.token) THEN 200 ELSE 401,
                               r.token, r.refresh)
    /\ UNCHANGED <<use_redis, redis_client, memory_cache, redis_db, redis_up,
                   probes, touched, inval, now, health>>

\* GET /api/user/stats
GetUserStats(answer, status_200) ==
    LET r == get_valid_access_token(session, now, answer) IN
    /\ session' = r.session
    /\ IF ~Truthy(r.token)
       THEN /\ last' = AuthObs("get_user_stats", 401, r.token, r.refresh)
            /\ UNCHANGED <<memory_cache, redis_db, touched>>
       ELSE LET stats == StatsFor(St, r.token, status_200) IN
            /\ CommitStore(stats.st)
            /\ last' = AuthObs("get_user_stats",
                               IF stats.raised THEN 500 ELSE 200,
                               r.token, r.refresh)
    /\ UNCHANGED <<use_redis, redis_client, redis_up, probes, inval, now,
                   health>>

\* time passes between two requests
Tick ==
    /\ \E d \in Ticks : now + d <= MaxNow /\ now' = now + d
    /\ last' = AuthObs("tick", 0, PyNone, "none")
    /\ UNCHANGED <<use_redis, redis_client, memory_cache, redis_db, redis_up,
                   probes, touched, inval, session, health>>

\* the requests of one client
NextAuth ==
    \/ \E state \in OAuthStates : Login(state)
    \/ \E args \in CallbackArgs : CallbackGet(args)
    \/ \E data \in CallbackData, answer \in TokenAnswers,
          status_200 \in BOOLEAN : CallbackPost(data, answer, status_200)
    \/ Logout
    \/ \E answer \in TokenAnswers : Status(answer)
    \/ \E answer \in TokenAnswers : GetUser(answer)
    \/ \E answer \in TokenAnswers, status_200 \in BOOLEAN :
          GetUserStats(answer, status_200)
    \/ Tick

SpecAuth == Init /\ [][NextAuth]_vars

----------------------------------------------------------------------------
(* Properties *)

Absent == "<absent>"

\* what the selected store holds under key
Raw(key) ==
    IF UsesRedis
    THEN IF key \in DOMAIN redis_db THEN redis_db[key] ELSE Absent
    ELSE IF key \in DOMAIN memory_cache THEN memory_cache[key] ELSE Absent

\* s occurs in key as a substring
IsSubstring(s, key) ==
    \E i \in 0..(Len(key) - Len(s)) : SubSeq(key, i + 1, i + Len(s)) = s

SubstringKeys == [u \in UserIds |-> {k \in AllKeys : IsSubstring(u, k)}]

\* no store error was swallowed during the observed operation
StoreWorked(obs) == ~obs.rerr /\ ~obs.werr

\* C1: with a working store, the second of two successive calls with the
\* same arguments does not run the wrapped function and returns the first
\* call's value, whatever that value is; a call whose arguments have no
\* entry yet runs the wrapped function.
C1_SecondCallIsServedFromCache ==
    [][(last'.op = "call" /\ StoreWorked(last'))
        => /\ (last.op = "call" /\ last.arg = last'.arg /\ StoreWorked(last)
               /\ ~last.raised)
              => (last'.ran = 0 /\ last'.res = last.res)
           /\ ~last'.pre => last'.ran = 1]_vars

\* the error outcomes of the memoized calls: the function raised, the
\* affinity helper returned its error report, or the playlist request was
\* not answered 200
ErrorOutcome(obs) ==
    \/ obs.raised
    \/ obs.res = ErrFailed
    \/ obs.arg = "playlists" /\ obs.res = PyNone

\* C2: a memoized call that ends in an error outcome writes no cache entry,
\* and the next identical call runs the wrapped function again.
C2_ErrorsAreNotCached ==
    [][/\ \A c \in Calls :
            (last'.op = "call" /\ last'.arg = c /\ ErrorOutcome(last'))
            => Raw(CacheKey(c))' = Raw(CacheKey(c))
       /\ (last.op = "call" /\ ErrorOutcome(last) /\ last'.op = "call"
           /\ last'.arg = last.arg)
          => last'.ran = 1]_vars

\* C3: after invalidate_user_cache(s) on a working store, a call whose cache
\* key contains s runs the wrapped function again, on either store.
C3_InvalidatedCallRunsAgain ==
    [][(last.op = "invalidate" /\ StoreWorked(last) /\ last'.op = "call"
        /\ CacheKey(last'.arg) \in SubstringKeys[last.arg])
        => last'.ran = 1]_vars

\* C3 witness: on the networked store, an invalidation by a substring that
\* spans prefix and digest removed the entry an earlier call had written.
C3_Witness ==
    /\ last.op = "invalidate" /\ last.arg = "stats:a864" /\ StoreWorked(last)
    /\ last.pre /\ UsesRedis
    /\ ~Present(CacheKey("statsA"))

\* the memoized calls made with access token "tokA"
TokACalls == {"profileA", "topA", "statsA", "affinityA"}

\* C4: after SpotifyService.invalidate_user_cache("tokA") on a working
\* store, the next profile, top-artists, stats and affinity call with that
\* token runs its wrapped function.
C4_UserCacheCleared ==
    [][(last.op = "clear_user_cache" /\ StoreWorked(last)
        /\ last'.op = "call" /\ last'.arg \in TokACalls)
        => last'.ran = 1]_vars

\* the values the wrapped function of each call can return
FreshResults(c) ==
    CASE c = "profileA" -> {ProfileAlice}
      [] c = "profileB" -> {ProfileBruno}
      [] c = "topA" -> {TopArtists}
      [] c = "statsA" -> {Stats}
      [] c = "affinityA" -> {Report, ErrFailed}
      [] c = "playlists" -> {Playlists, PyNone}

\* what the selected store holds once value has been written
Written(value) == IF UsesRedis THEN JsonDumps(value).v ELSE value

\* C5 as stated: a memoized call during which the cache read or the cache
\* write failed runs the wrapped function once, returns its result and
\* leaves the entry of its key as it was.
C5_FailedCallPersistsNothing ==
    [][\A c \in Calls :
         (last'.op = "call" /\ last'.arg = c /\ ~StoreWorked(last'))
         => /\ last'.ran = 1
            /\ last'.raised \/ last'.res \in FreshResults(c)
            /\ Raw(CacheKey(c))' = Raw(CacheKey(c))]_vars

\* C5 amended: a memoized call during which the cache read or the cache
\* write failed runs the wrapped function once and returns its result (or
\* the function's own exception, never a cache error); the entry of its key
\* is left as it was when the write failed, and holds the result when only
\* the read failed.
C5_FailedCallPassesThrough ==
    [][\A c \in Calls :
         (last'.op = "call" /\ last'.arg = c /\ ~StoreWorked(last'))
         => /\ last'.ran = 1
            /\ last'.raised \/ last'.res \in FreshResults(c)
            /\ (last'.werr \/ last'.raised)
               => Raw(CacheKey(c))' = Raw(CacheKey(c))
            /\ \A v \in FreshResults(c) :
                 (~last'.werr /\ ~last'.raised /\ last'.res = v)
                 => Raw(CacheKey(c))' = Written(v)']_vars

\* C5 witness: the stored text of a key did not decode, the wrapped
\* function ran and its result replaced the text.
C5_Witness ==
    /\ last.op = "call" /\ last.arg = "statsA" /\ last.rerr /\ ~last.werr
    /\ last.ran = 1 /\ redis_up /\ last.res = Stats
    /\ Raw(CacheKey("statsA")) = Written(Stats)

\* C6: invalidate_user_cache(identifier) on a working store removes every
\* entry whose key contains identifier and leaves every other entry as it
\* was, for every identifier and on either store.
C6_InvalidateRemovesExactlySubstrings ==
    [][\A u \in Idents :
         (last'.op = "invalidate" /\ last'.arg = u /\ StoreWorked(last'))
         => \A k \in AllKeys :
              IF k \in SubstringKeys[u]
              THEN Raw(k)' = Absent
              ELSE Raw(k)' = Raw(k)]_vars

\* C7: right after set(k, v, ttl) on a working store, for a payload v that
\* json.dumps accepts, set has reported success and get(k) returns a value
\* equal to v, whether or not k held another value before, on either store.
C7_SetThenGet ==
    (last.op = "set" /\ StoreWorked(last) /\ JsonDumps(last.val).ok)
    => (last.res = PyTrue /\ get(St, last.arg).res = last.val)

\* C8: exists(k) is true after a set(k, v, ttl) for every v, false after
\* delete(k) and after clear(), and get(k) returns absent exactly when
\* exists(k) is false (working store, no failing read).
C8_ExistsReflectsPresence ==
    /\ (last.op = "set" /\ StoreWorked(last))
       => exists(St, last.arg).res = PyTrue
    /\ (last.op = "delete" /\ StoreWorked(last))
       => exists(St, last.arg).res = PyFalse
    /\ (last.op = "clear" /\ StoreWorked(last))
       => \A k \in AllKeys : exists(St, k).res = PyFalse
    /\ \A k \in AllKeys :
         (~get(St, k).err /\ ~exists(St, k).err)
         => (get(St, k).res = PyNone <=> exists(St, k).res = PyFalse)

\* C9: on a working store delete(k) returns true exactly when an entry for
\* k existed just before, whatever its value, and k is absent afterwards.
C9_DeleteReportsRemoval ==
    (last.op = "delete" /\ StoreWorked(last))
    => /\ last.res = PyTrue <=> last.pre
       /\ ~Present(last.arg)

\* C10: no step changes the selection made at construction or repeats the
\* probe, and the manager only ever operates on the selected store, whose
\* counterpart keeps its content: also while the networked store is down.
C10_SelectionIsFixed ==
    [][/\ use_redis' = use_redis
       /\ redis_client' = redis_client
       /\ probes' = probes
       /\ touched' \subseteq {IF use_redis THEN "redis" ELSE "memory"}
       /\ use_redis => memory_cache' = memory_cache
       /\ ~use_redis => redis_db' = redis_db]_vars

\* C10 witness: the networked store was selected and is unreachable; a set
\* has just failed on it and nothing went to the fallback store.
C10_Witness ==
    /\ use_redis /\ ~redis_up
    /\ last.op = "set" /\ last.werr /\ last.res = PyFalse
    /\ touched = {"redis"} /\ memory_cache = EmptyMap

\* the operations of the CacheManager interface
ManagerOps == {"get", "set", "delete", "clear", "exists"}

\* C11: a CacheManager operation during which the store (or the encoding of
\* the value) fails hands its caller a plain value, None from get and False
\* from set, delete, clear and exists, and leaves the selection and the
\* content of both stores as they were.
C11_StoreFailuresAreAbsorbed ==
    [][(last'.op \in ManagerOps /\ (last'.rerr \/ last'.werr))
       => /\ ~last'.raised
          /\ last'.res = IF last'.op = "get" THEN PyNone ELSE PyFalse
          /\ UNCHANGED <<use_redis, redis_client, memory_cache,
                         redis_db>>]_vars

\* C11 witness: exists has answered False while the networked store was
\* unreachable.
C11_Witness ==
    /\ last.op = "exists" /\ last.rerr /\ last.res = PyFalse
    /\ use_redis /\ ~redis_up

\* the observed step is one that the fallback store lets remove or replace
\* the entry under k: delete(k), clear(), set(k, ...), an invalidation whose
\* identifier occurs in k, and the health check's round trip on its test key
MayRemove(obs, k) ==
    \/ obs.op \in {"delete", "set"} /\ obs.arg = k
    \/ obs.op = "clear"
    \/ obs.op = "invalidate" /\ k \in SubstringKeys[obs.arg]
    \/ obs.op = "health" /\ k = HealthKey

\* C12: on the fallback store an entry stays retrievable with its value
\* through every step, the lapse of its ttl included, other than delete(k),
\* clear(), a set on k and an invalidation whose identifier occurs in k.
C12_FallbackEntriesPersist ==
    [][\A k \in AllKeys :
         (~UsesRedis /\ k \in DOMAIN memory_cache /\ ~MayRemove(last', k))
         => /\ k \in DOMAIN memory_cache'
            /\ memory_cache'[k] = memory_cache[k]
            /\ get(St, k).res' = memory_cache[k]]_vars

\* C12 witness: the ttl of an entry of the fallback store has elapsed and
\* the entry is still there.
C12_Witness ==
    /\ ~UsesRedis /\ last.op = "expire"
    /\ last.arg \in DOMAIN memory_cache
    /\ get(St, last.arg).res = memory_cache[last.arg]

\* C13: the health check reports healthy exactly when the value its get
\* reads back is the sentinel its set wrote, degraded exactly when it is
\* not (no step of the round trip raises), and every report carries the
\* measured latency (last.val for a health step).
C13_HealthReport ==
    [][last'.op = "health"
       => LET s == set(St, HealthKey, Sentinel, HealthExpire)
              g == get(s.st, HealthKey)
          IN /\ last'.res = "healthy" <=> g.res = Sentinel
             /\ last'.res = "degraded" <=> g.res # Sentinel
             /\ last'.val \in Latencies]_vars

\* the elements of a sequence, as a set
Range(s) == {s[i] : i \in DOMAIN s}

\* equal prefix, function, positional arguments and keyword arguments, the
\* latter as a set of name/value pairs
SameCall(c1, c2) ==
    /\ c1.prefix = c2.prefix /\ c1.name = c2.name /\ c1.args = c2.args
    /\ Range(c1.kwargs) = Range(c2.kwargs)

\* C14: two memoized calls get the same cache key exactly when they have
\* the same prefix, function, positional arguments and set of keyword
\* arguments.
C14_SameKeyIffSameCall ==
    last.op = "generate_cache_key"
    => (last.key1 = last.key2 <=> SameCall(last.first, last.second))

\* C14 witness: one call written with its keyword arguments in two orders
\* has got one key.
C14_Witness ==
    /\ last.op = "generate_cache_key"
    /\ last.first.kwargs # last.second.kwargs
    /\ SameCall(last.first, last.second)
    /\ last.key1 = last.key2

\* C15: when an invalidation of the fallback store ends while other
\* threads use the store, every entry that was present when it began and
\* whose key contains its identifier is gone (none of them is written
\* again meanwhile), as in every sequential order of the same operations.
C15_ConcurrentInvalidationRemoves ==
    [][(inval.pc # "idle" /\ inval'.pc = "idle")
       => \A k \in inval.start \cap KeysContaining[inval.user_id] :
            k \notin DOMAIN memory_cache']_vars

\* an affinity calculation has returned its report
Calculated == last.op = "calculate_affinity"

\* C16: with at least one empty profile calculate_affinity returns the
\* empty result: score 0, every metric "0%", every detailed score 0, an
\* analysis that says "insufficient data", no common artists or genres.
C16_EmptyProfileGivesEmptyResult ==
    (Calculated /\ (last.user1_artists = <<>> \/ last.user2_artists = <<>>))
    => LET r == last.result IN
       /\ r.affinity_score = 0
       /\ \A m \in DOMAIN r.metrics : r.metrics[m] = "0%"
       /\ DOMAIN r.metrics = {"artist_similarity", "genre_similarity",
                              "popularity_similarity", "overall_match"}
       /\ \A s \in DOMAIN r.detailed_scores : r.detailed_scores[s] = 0
       /\ IsSubstring("insufficient data", r.analysis)
       /\ r.common_artists = <<>> /\ r.common_genres = <<>>

\* C16 witness: the empty result for an empty first and a non-empty second
\* profile.
C16_Witness ==
    /\ Calculated
    /\ last.user1_artists = <<>> /\ Len(last.user2_artists) = 2
    /\ last.result.metrics.overall_match = "0%"

\* C17: for non-empty profiles the affinity score and every detailed score
\* are integers from 0 to 100.
C17_ScoresWithinRange ==
    (Calculated /\ last.user1_artists # <<>> /\ last.user2_artists # <<>>)
    => LET r == last.result IN
       /\ r.affinity_score \in 0..100
       /\ \A s \in DOMAIN r.detailed_scores : r.detailed_scores[s] \in 0..100

\* C17 witness: two different non-empty profiles whose popularity
\* similarity is below one half and whose score is above 0.
C17_Witness ==
    /\ Calculated
    /\ last.user1_artists # <<>> /\ last.user2_artists # <<>>
    /\ last.result.detailed_scores.popularity_similarity < 50
    /\ last.result.affinity_score > 0

\* C18: a non-empty profile with at least one genre, compared with itself,
\* has all its artists common and a score of at least 80.
C18_SelfAffinity ==
    (/\ Calculated
     /\ last.user1_artists = last.user2_artists
     /\ last.user1_artists # <<>>
     /\ _extract_genres(last.user1_artists) # {})
    => /\ Len(last.result.common_artists) = Len(last.user1_artists)
       /\ last.result.affinity_score >= 80

\* C18 witness: a profile of several artists, one of them without genres,
\* compared with itself.
C18_Witness ==
    /\ Calculated
    /\ last.user1_artists = last.user2_artists
    /\ Len(last.user1_artists) >= 2
    /\ \E i \in DOMAIN last.user1_artists : last.user1_artists[i].genres = <<>>
    /\ _extract_genres(last.user1_artists) # {}
    /\ Len(last.result.common_artists) = Len(last.user1_artists)

\* the artists of artists1 whose id occurs in artists2, in artists1's order
CommonById(artists1, artists2) ==
    SelectSeq(artists1, LAMBDA a : \E i \in DOMAIN artists2 : artists2[i].id = a.id)

\* 0.4 overlap + 0.3 genre + 0.2 popularity + 0.1 diversity, times ten, in
\* units of 1/Scale; the overlap is the number of artists common by id over
\* the length of the longer profile
WeightedSum(artists1, artists2) ==
    4 * ((Len(CommonById(artists1, artists2)) * Scale)
            \div Max(Len(artists1), Len(artists2)))
      + 3 * calculate_genre_similarity(artists1, artists2)
      + 2 * calculate_popularity_similarity(artists1, artists2)
      + 1 * calculate_diversity_compatibility(artists1, artists2)

\* C19: for non-empty profiles the affinity score is an integer nearest to
\* 100 times the weighted sum of the four sub-scores with the weights 0.4,
\* 0.3, 0.2 and 0.1, which sum to 1.
C19_ScoreIsRoundedWeightedSum ==
    (Calculated /\ last.user1_artists # <<>> /\ last.user2_artists # <<>>)
    => /\ 2 * Abs(last.result.affinity_score * Scale
                    - 10 * WeightedSum(last.user1_artists,
                                       last.user2_artists)) <= Scale
       /\ 4 + 3 + 2 + 1 = 10

\* C19 witness: a calculation whose overlap and genre similarity are both
\* strictly between 0 and 1 and differ.
C19_Witness ==
    /\ Calculated
    /\ last.user1_artists # <<>> /\ last.user2_artists # <<>>
    /\ last.result.detailed_scores.common_artists \in 1..99
    /\ last.result.detailed_scores.genre_similarity \in 1..99
    /\ last.result.detailed_scores.common_artists
         # last.result.detailed_scores.genre_similarity

\* C20: common_artists lists, in the order of the first profile, exactly its
\* artists whose id occurs in the second profile, one entry each, holding
\* the name and the popularity of the first profile's artist and no more.
C20_CommonArtistsById ==
    Calculated
    => LET common == CommonById(last.user1_artists, last.user2_artists) IN
       last.result.common_artists
           = [k \in DOMAIN common |->
                 [name |-> common[k].name,
                  popularity |-> common[k].popularity]]

\* C20 witness: two common artists that the second profile lists in the
\* other order, one of them with another popularity there.
C20_Witness ==
    /\ Calculated
    /\ Len(last.result.common_artists) = 2
    /\ Len(last.user2_artists) = 2
    /\ last.user1_artists[1].id = last.user2_artists[2].id
    /\ last.user1_artists[1].popularity # last.user2_artists[2].popularity
    /\ last.user1_artists[2].id = last.user2_artists[1].id

\* the genre tags of a profile's artists
Tags(artists) == UNION {Range(artists[k].genres) : k \in DOMAIN artists}

\* the characters of genre tags by ascending code point
Alphabet == " ABCDEFGHIJKLMNOPQRSTUVWXYZabcdefghijklmnopqrstuvwxyz"

Rank(s, i) ==
    CHOOSE r \in 1..Len(Alphabet) : SubSeq(Alphabet, r, r) = SubSeq(s, i, i)

\* s comes strictly before t in case-sensitive lexicographic order
Before(s, t) ==
    \E i \in 1..Len(t) :
        /\ i - 1 <= Len(s)
        /\ \A j \in 1..(i - 1) : Rank(s, j) = Rank(t, j)
        /\ (Len(s) = i - 1 \/ Rank(s, i) < Rank(t, i))

C22_GenreSimilaritySymmetric ==
    Calculated
    => /\ calculate_genre_similarity(last.user1_artists, last.user2_artists)
            = calculate_genre_similarity(last.user2_artists,
                                         last.user1_artists)
       /\ last.result.detailed_scores.genre_similarity
            \in Round(calculate_genre_similarity(last.user2_artists,
                                                 last.user1_artists) * 100,
                      Scale)

\* C22 witness: two profiles with genre sets of different sizes that share
\* some but not all genres.
C22_Witness ==
    /\ Calculated
    /\ Cardinality(Tags(last.user1_artists))
         < Cardinality(Tags(last.user2_artists))
    /\ Tags(last.user1_artists) \cap Tags(last.user2_artists) # {}
    /\ ~(Tags(last.user1_artists) \subseteq Tags(last.user2_artists))
    /\ last.result.detailed_scores.genre_similarity \in 1..99

\* C23: when one of two non-empty profiles has no genre tag, the genre
\* similarity is 0, that profile's genre diversity is 0, and the report's
\* genre_similarity and diversity_compatibility are both 0, so that they add
\* nothing to the affinity score.
C23_NoGenresAddNothing ==
    (/\ Calculated
     /\ last.user1_artists # <<>> /\ last.user2_artists # <<>>
     /\ Tags(last.user1_artists) = {})
    => /\ calculate_genre_similarity(last.user1_artists,
                                     last.user2_artists) = 0
       /\ _calculate_genre_diversity(last.user1_artists) = 0
       /\ last.result.detailed_scores.genre_similarity = 0
       /\ last.result.detailed_scores.diversity_compatibility = 0

Analysed == last.op = "generate_analysis"

\* the wording of each tier, by the number of boundaries the score reaches
TierWording ==
    <<"very different musical preferences",
      "limited musical compatibility",
      "moderate musical compatibility",
      "good musical compatibility",
      "great musical compatibility",
      "exceptional musical compatibility">>

TierOf(score) == Cardinality({b \in {25, 40, 55, 70, 85} : score >= b})

EndsWith(s, tail) ==
    Len(s) >= Len(tail) /\ SubSeq(s, Len(s) - Len(tail) + 1, Len(s)) = tail

\* C24: the analysis carries the wording of exactly the tier of the score
\* (boundaries 85, 70, 55, 40, 25), with the soulmate sentence from 85 on,
\* and ends with no common-artist clause for a count of 0, with "You share 1
\* common artist." for 1 and with "You share N common artists." from 2 on.
C24_AnalysisTiersAndClause ==
    Analysed
    => /\ \A k \in 1..6 :
              IsSubstring(TierWording[k], last.analysis)
                  <=> (k = TierOf(last.score) + 1)
       /\ IsSubstring("soulmates", last.analysis) <=> (last.score >= 85)
       /\ IsSubstring("common artist", last.analysis)
             <=> (last.common_count > 0)
       /\ (last.common_count = 1)
             => EndsWith(last.analysis, " You share 1 common artist.")
       /\ (last.common_count >= 2)
             => EndsWith(last.analysis,
                         " You share " \o ToString(last.common_count)
                             \o " common artists.")

\* C24 witness: the lowest score of the top tier with one common artist.
C24_Witness ==
    /\ Analysed
    /\ last.score = 85 /\ last.common_count = 1
    /\ EndsWith(last.analysis, "soulmates! You share 1 common artist.")

\* calculate_affinity has returned or raised on two Python values
Called == last.op = "calculate_affinity_call"

\* both arguments are non-empty lists of dictionaries that have id and name
WellFormed(value) ==
    /\ value.type = "list"
    /\ \A k \in DOMAIN value.items :
           {"id", "name"} \subseteq DOMAIN value.items[k]

PopularityOr50(artist) ==
    IF "popularity" \in DOMAIN artist THEN artist.popularity ELSE 50

RECURSIVE SumOr50(_)
SumOr50(artists) ==
    IF artists = <<>> THEN 0
    ELSE PopularityOr50(Head(artists)) + SumOr50(Tail(artists))

TagsOrNone(artists) ==
    UNION {IF "genres" \in DOMAIN artists[k]
           THEN Range(artists[k].genres) ELSE {}
           : k \in DOMAIN artists}

\* C25: on non-empty lists of artists that have id and name nothing is
\* raised; an artist without popularity counts as 50 in the popularity
\* sub-score and is listed with popularity 50 in common_artists, and an
\* artist without genres adds no genre to the common genres.
C25_MissingFieldsDefault ==
    (/\ Called
     /\ WellFormed(last.user1_artists) /\ WellFormed(last.user2_artists)
     /\ last.user1_artists.items # <<>> /\ last.user2_artists.items # <<>>)
    => LET A == last.user1_artists.items
           B == last.user2_artists.items
           r == last.result
           common == CommonById(A, B)
       IN /\ "raised" \notin DOMAIN r
          /\ r.detailed_scores.popularity_similarity
               \in Round(100 * Len(A) * Len(B)
                           - Abs(SumOr50(A) * Len(B) - SumOr50(B) * Len(A)),
                         Len(A) * Len(B))
          /\ Range(r.common_genres) = TagsOrNone(A) \cap TagsOrNone(B)
          /\ r.common_artists
               = [k \in DOMAIN common |->
                     [name |-> common[k].name,
                      popularity |-> PopularityOr50(common[k])]]

\* the six fields of a complete report
ReportFields ==
    {"affinity_score", "analysis", "common_artists", "common_genres",
     "metrics", "detailed_scores"}

\* C26: calculate_affinity returns a complete report or signals
\* MalformedInput, and on an argument that is not a list or that holds an
\* artist without id or name it signals MalformedInput.
C26_ReportOrMalformedInput ==
    Called
    => /\ \/ DOMAIN last.result = ReportFields
          \/ (DOMAIN last.result = {"raised"}
                /\ last.result.raised = "MalformedInput")
       /\ (~WellFormed(last.user1_artists) \/ ~WellFormed(last.user2_artists))
             => (DOMAIN last.result = {"raised"}
                   /\ last.result.raised = "MalformedInput")

\* C27: the session holds spotify_token exactly when it holds user_profile.
C27_TokenIffProfile ==
    ("spotify_token" \in DOMAIN session) <=> ("user_profile" \in DOMAIN session)

\* the recorded expiry of the session's access token, in minutes
ExpiryOf(s) == fromisoformat(s["spotify_token"].expires_at)

\* the stored token is at least 5 minutes from its recorded expiry
StoredTokenValid(s, t) ==
    "spotify_token" \in DOMAIN s /\ t < ExpiryOf(s) - 5

C29_ConcurrentHealthChecks ==
    [][/\ (last'.op = "health_report") => (last'.status = "healthy")
       /\ (last'.op \in {"health_set", "health_report"})
             => Raw(HealthKey) \in {Absent, Written(TestValue[last'.thread])}
      ]_vars


\* C30: a step of the auth routes makes a session authenticated (holding
\* both spotify_token and user_profile) only when the session already holds
\* the oauth_state stored by a preceding /auth/login; a callback without a
\* prior login leaves the session unauthenticated
C30_CallbackNeedsLoginState ==
    [][(~({"spotify_token", "user_profile"} \subseteq DOMAIN session)
          /\ {"spotify_token", "user_profile"} \subseteq DOMAIN session')
         => "oauth_state" \in DOMAIN session
      ]_vars

====
